---- MODULE Spec2Model ----
(***************************************************************************)
(* A model of the mehfil event pipeline: the Notion store gateway          *)
(* (notion_db.py), the orchestrator (main.py) and the scrapers' date/time  *)
(* normalizers (scrapers/*.py).                                            *)
(*                                                                         *)
(* Representation of values:                                               *)
(*   - a calendar date is a tuple <<y, m, d>>, ordered lexicographically;  *)
(*   - a datetime is a record [y, m, d, tod], tod the minute of the day;   *)
(*   - an ISO date string "YYYY-MM-DD" is the tuple <<y, m, d>>, an ISO    *)
(*     datetime string "YYYY-MM-DDTHH:MM..." is <<y, m, d, h, mi>>, so     *)
(*     that the slice [:10] is SubSeq(s, 1, 3);                            *)
(*   - None / a missing value is the empty tuple <<>>.                     *)
(***************************************************************************)
EXTENDS Integers, Sequences, FiniteSets, TLC

VARIABLES
    now,            \* the wall clock read by datetime.now()
    store,          \* the Notion database: a sequence of pages
    pc,             \* per process: where its gateway call stands
    runs,           \* number of gateway calls started so far
    event,          \* add_events: the loop variable `event`
    existing_urls,  \* add_events: the local set existing_urls
    has_more,       \* the pagination flag of the running query loop
    start_cursor,   \* the pagination cursor of the running query loop
    idx,            \* number of loop iterations completed by the call
    added, skipped, errors,   \* add_events / cleanup counters
    deleted, kept,            \* cleanup counters
    today,          \* cleanup_past_events: the local `today`
    response,       \* cleanup_past_events: the current response, its
                    \* `results` cut down to the entries not yet visited
    admitted,       \* history: urls that passed the duplicate test this run
    created,        \* history: urls whose create call succeeded this run
    norm_pc,        \* normalizer: "ready" before the call, "applied" after
    norm_adapter,   \* normalizer: the scraper whose normalizer is called
    date_text,      \* normalizer: the argument date_text
    start_date_str, \* normalizer: the startDate of a JSON-LD record
    norm_result,    \* normalizer: the (date, time_str) returned
    main_pc,        \* main: "scrape", "except", "push" or "done"
    scraper,        \* main: index of the scraper the loop is at
    all_events,     \* main: the list all_events
    site,           \* what the scraped sites serve during the run
    configured,     \* NOTION_TOKEN and NOTION_DATABASE_ID are both set
    failed,         \* history: a scrape() of this run of main has raised
    cat_pc,         \* categorizer: "ready" before the call, "applied" after
    cat_adapter,    \* categorizer: the scraper whose _categorize is called
    cat_name,       \* categorizer: the argument name
    cat_extra,      \* categorizer: the second argument (description,
                    \* search term, query or context), None when not given
    cat_result,     \* categorizer: the list returned
    cat_prev,       \* categorizer: the call made before this one
    geo_pc,         \* geocode_events: "loop", "calling", "sleep" or "done"
    geo_events,     \* geocode_events: the list `events` of events.json
    geo_i,          \* geocode_events: position of the for loop
    geo_loc,        \* geocode_location: the argument of the last call
    geo_coords,     \* geocode_location: the pair returned by the last call
    geo_ext,        \* geocode_location: the last call went to Nominatim
    geo_trace,      \* history: the requests and sleeps of this pass
    geo_inflight,   \* history: requests sent and not yet answered
    geo_pass,       \* history: 1 in the first run of the script, 2 in the next
    geo_first,      \* history: the catalog saved by the first run
    geo_file,       \* geocoder: the content of dashboard/events.json
    cur_pc,         \* curator: "ready", then "returned" or "raised"
    cur_fn,         \* curator: the function that was called
    cur_events,     \* curator: the events of dashboard/events.json
    cur_weather,    \* load_events: the argument weather_condition
    cur_result,     \* curator: the list returned
    wx_pc,          \* analyze_weather: "ready" before the call, "applied" after
    wx_data,        \* analyze_weather: the argument weather_data
    wx_condition,   \* analyze_weather: the condition returned
    sub_pc,         \* get_events_for_subscriber: "ready", then "returned"
    sub_events,     \* get_events_for_subscriber: the argument events
    subscriber,     \* get_events_for_subscriber: the argument subscriber
    sub_result      \* get_events_for_subscriber: the list returned

gwvars == <<now, store, pc, runs, event, existing_urls, has_more, start_cursor,
            idx, added, skipped, errors, deleted, kept, today, response,
            admitted, created>>

nzvars == <<norm_pc, norm_adapter, date_text, start_date_str, norm_result>>

mnvars == <<main_pc, scraper, all_events, site, configured, failed>>

ctvars == <<cat_pc, cat_adapter, cat_name, cat_extra, cat_result, cat_prev>>

gcvars == <<geo_pc, geo_events, geo_i, geo_loc, geo_coords, geo_ext, geo_trace,
            geo_inflight, geo_pass, geo_first, geo_file>>

cuvars == <<cur_pc, cur_fn, cur_events, cur_weather, cur_result>>

wxvars == <<wx_pc, wx_data, wx_condition>>

sbvars == <<sub_pc, sub_events, subscriber, sub_result>>

vars == <<gwvars, nzvars, mnvars, ctvars, gcvars, cuvars, wxvars, sbvars>>

\* what the actions of the gateway, of the normalizers, of main and of the
\* categorizers leave alone
nonGw == <<nzvars, mnvars, ctvars, gcvars, cuvars, wxvars, sbvars>>
nonNz == <<gwvars, mnvars, ctvars, gcvars, cuvars, wxvars, sbvars>>
nonMn == <<gwvars, nzvars, ctvars, gcvars, cuvars, wxvars, sbvars>>
nonCt == <<gwvars, nzvars, mnvars, gcvars, cuvars, wxvars, sbvars>>
nonGc == <<gwvars, nzvars, mnvars, ctvars, cuvars, wxvars, sbvars>>
nonCu == <<gwvars, nzvars, mnvars, ctvars, gcvars, wxvars, sbvars>>
nonWx == <<gwvars, nzvars, mnvars, ctvars, gcvars, cuvars, sbvars>>
nonSb == <<gwvars, nzvars, mnvars, ctvars, gcvars, cuvars, wxvars>>

-----------------------------------------------------------------------------
(* Bounds of the model *)

MaxEvents == 2      \* candidates handed to one add_events call
MaxRuns == 2        \* gateway calls in one behaviour
MaxSeed == 3        \* pages in the store before the first call
MaxStore == 4       \* pages the store can hold
MaxCatalog == 2     \* events in events.json
PageSize == 1       \* entries per response of databases.query

Procs == {1, 2}

-----------------------------------------------------------------------------
(* Dates *)

None == <<>>

D0 == <<2026, 1, 30>>
D1 == <<2026, 1, 31>>
D2 == <<2026, 2, 1>>
D3 == <<2026, 2, 2>>

\* date.__lt__ / datetime.date comparison on <<y, m, d>>
DateLT(a, b) ==
    \/ a[1] < b[1]
    \/ a[1] = b[1] /\ a[2] < b[2]
    \/ a[1] = b[1] /\ a[2] = b[2] /\ a[3] < b[3]

DateGE(a, b) == ~DateLT(a, b)

\* datetime.now().date()
DateOf(dt) == <<dt.y, dt.m, dt.d>>

\* event.date.strftime("%Y-%m-%d") and today.isoformat()
IsoFormat(dt) == <<dt.y, dt.m, dt.d>>

\* datetime.strptime(end_date_str[:10], "%Y-%m-%d").date()
ParseEndDate(end_date_str) == SubSeq(end_date_str, 1, 3)

At(d, t) == [y |-> d[1], m |-> d[2], d |-> d[3], tod |-> t]

-----------------------------------------------------------------------------
(* The parts of the program that are not running *)

NoCall == [adapter |-> "", name |-> <<>>, extra |-> <<>>, result |-> <<>>]

CtIdle ==
    /\ cat_pc = "idle"
    /\ cat_adapter = ""
    /\ cat_name = <<>>
    /\ cat_extra = <<>>
    /\ cat_result = <<>>
    /\ cat_prev = NoCall

GcIdle ==
    /\ geo_pc = "idle"
    /\ geo_events = <<>>
    /\ geo_i = 0
    /\ geo_loc = <<>>
    /\ geo_coords = <<>>
    /\ geo_ext = FALSE
    /\ geo_trace = <<>>
    /\ geo_inflight = 0
    /\ geo_pass = 0
    /\ geo_first = <<>>
    /\ geo_file = [events |-> <<>>, updated |-> ""]

CuIdle ==
    /\ cur_pc = "idle"
    /\ cur_fn = ""
    /\ cur_events = <<>>
    /\ cur_weather = ""
    /\ cur_result = <<>>

NoForecast == [given |-> FALSE, temperature_2m_max |-> <<>>,
               temperature_2m_min |-> <<>>, precipitation_sum |-> <<>>,
               snowfall_sum |-> <<>>, weather_code |-> <<>>]

WxIdle ==
    /\ wx_pc = "idle"
    /\ wx_data = NoForecast
    /\ wx_condition = ""

NoSubscriber == [interests |-> <<>>, location |-> <<>>, price_prefs |-> <<>>]

SbIdle ==
    /\ sub_pc = "idle"
    /\ sub_events = <<>>
    /\ subscriber = NoSubscriber
    /\ sub_result = <<>>

ExtIdle == CtIdle /\ GcIdle /\ CuIdle /\ WxIdle /\ SbIdle

-----------------------------------------------------------------------------
(* Events and pages *)

\* The candidate events add_events can be handed: an empty url, and the same
\* url produced by two different adapters.
EventPool ==
    { [name |-> "untitled", url |-> "",  source |-> "Eventbrite",      date |-> At(D3, 0)],
      [name |-> "holi",     url |-> "a", source |-> "Eventbrite",      date |-> At(D0, 0)],
      [name |-> "holi",     url |-> "a", source |-> "Boston Calendar", date |-> At(D3, 0)] }

NoEvent == [name |-> "", url |-> "", source |-> "", date |-> At(D0, 0)]

\* add_event: the page pages.create stores for an event
PageOf(e) ==
    [url |-> e.url, source |-> e.source, start |-> IsoFormat(e.date),
     end |-> None, archived |-> FALSE]

\* Pages the database holds before the program first runs (entered by hand,
\* some of them multi-day events with an end date).
SeedList ==
    << [url |-> "a",  source |-> "manual", start |-> D0, end |-> None,
        archived |-> FALSE],
       [url |-> "m1", source |-> "manual", start |-> D0, end |-> D1,
        archived |-> FALSE],
       [url |-> "m2", source |-> "manual", start |-> D0,
        end |-> <<2026, 2, 1, 18, 30>>, archived |-> FALSE],
       [url |-> "m3", source |-> "manual", start |-> D1, end |-> D3,
        archived |-> FALSE] >>

Min(a, b) == IF a < b THEN a ELSE b

RECURSIVE SortedSeq(_)
SortedSeq(S) ==
    IF S = {} THEN <<>>
    ELSE LET m == CHOOSE x \in S : \A y \in S : x <= y
         IN  <<m>> \o SortedSeq(S \ {m})

-----------------------------------------------------------------------------
(* The store's query API, as the gateway uses it *)

NoCursor == 0

\* ids of the pages a query matches from the cursor on: archived pages are
\* not returned; `before` is the Date filter of cleanup_past_events (None
\* when the query has no filter)
Matching(st, cursor, before) ==
    { i \in 1..Len(st) :
        /\ i >= cursor
        /\ ~st[i].archived
        /\ (before = None \/ DateLT(st[i].start, before)) }

\* client.databases.query(database_id, start_cursor, filter): one response
Query(st, cursor, before) ==
    LET ids == SortedSeq(Matching(st, cursor, before))
        n   == Min(PageSize, Len(ids))
    IN  [results     |-> [k \in 1..n |-> [id |-> ids[k], page |-> st[ids[k]]]],
         has_more    |-> Len(ids) > n,
         next_cursor |-> IF Len(ids) > n THEN ids[n + 1] ELSE NoCursor]

\* `if url_prop.get("url"): urls.add(url_prop["url"])`
UrlsOf_KeepEmpty(resp) ==
    { resp.results[k].page.url : k \in 1..Len(resp.results) }

UrlsOf(resp) ==
    { resp.results[k].page.url :
        k \in { j \in 1..Len(resp.results) : resp.results[j].page.url # "" } }

-----------------------------------------------------------------------------
(* NotionEventClient.add_events *)

NoResponse == [results |-> <<>>, has_more |-> FALSE, next_cursor |-> NoCursor]

Active(q) == pc[q] \in {"seed", "loop", "cquery", "centry"}

\* the design's single-flight assumption: no other call is in progress
SingleFlight(r) == \A q \in Procs \ {r} : ~Active(q)

\* the locals of a call as it begins
Locals(r) ==
    /\ existing_urls' = [existing_urls EXCEPT ![r] = {}]
    /\ has_more' = [has_more EXCEPT ![r] = TRUE]
    /\ start_cursor' = [start_cursor EXCEPT ![r] = NoCursor]
    /\ idx' = [idx EXCEPT ![r] = 0]
    /\ added' = [added EXCEPT ![r] = 0]
    /\ skipped' = [skipped EXCEPT ![r] = 0]
    /\ errors' = [errors EXCEPT ![r] = 0]
    /\ deleted' = [deleted EXCEPT ![r] = 0]
    /\ kept' = [kept EXCEPT ![r] = 0]
    /\ response' = [response EXCEPT ![r] = NoResponse]
    /\ admitted' = [admitted EXCEPT ![r] = {}]
    /\ created' = [created EXCEPT ![r] = {}]

Reset(r) == runs' = runs + 1 /\ Locals(r)

\* add_events is called (skip_duplicates=True, as main calls it): the
\* counters are zeroed and get_existing_urls begins
StartAddEvents(r) ==
    /\ ~Active(r)
    /\ runs < MaxRuns
    /\ pc' = [pc EXCEPT ![r] = "seed"]
    /\ Reset(r)
    /\ UNCHANGED <<now, store, event, today>>
    /\ UNCHANGED nonGw

\* get_existing_urls: one iteration of its `while has_more` loop
GetExistingUrls(r) ==
    /\ pc[r] = "seed"
    /\ LET resp == Query(store, start_cursor[r], None)
       IN  /\ existing_urls' =
                [existing_urls EXCEPT ![r] = existing_urls[r] \cup UrlsOf(resp)]
           /\ has_more' = [has_more EXCEPT ![r] = resp.has_more]
           /\ start_cursor' = [start_cursor EXCEPT ![r] = resp.next_cursor]
           /\ pc' = [pc EXCEPT ![r] = IF resp.has_more THEN "seed" ELSE "loop"]
    /\ UNCHANGED <<now, store, runs, event, idx, added, skipped, errors,
                   deleted, kept, today, response, admitted, created>>
    /\ UNCHANGED nonGw

\* `if event.url in existing_urls`
IsDuplicate_Recheck(url, existing, st) ==
    \/ url \in existing
    \/ \E i \in 1..Len(st) : ~st[i].archived /\ st[i].url = url

IsDuplicate(url, existing, st) == url \in existing

\* `existing_urls.add(event.url)  # Track newly added`
TrackAdded_Forgotten(existing, url) == existing

TrackAdded(existing, url) == existing \cup {url}

\* `except Exception as e: errors += 1`
CountError_Dropped(n) == n

CountError(n) == n + 1

\* the body of `for event in events` for the candidate e
ProcessCandidate(r, e) ==
    /\ event' = [event EXCEPT ![r] = e]
    /\ idx' = [idx EXCEPT ![r] = idx[r] + 1]
    /\ IF IsDuplicate(e.url, existing_urls[r], store)
       THEN /\ skipped' = [skipped EXCEPT ![r] = skipped[r] + 1]
            /\ UNCHANGED <<store, added, errors, existing_urls,
                           admitted, created>>
       ELSE /\ admitted' = [admitted EXCEPT ![r] = admitted[r] \cup {e.url}]
            /\ \/ \* add_event returns
                  /\ Len(store) < MaxStore
                  /\ store' = Append(store, PageOf(e))
                  /\ added' = [added EXCEPT ![r] = added[r] + 1]
                  /\ existing_urls' =
                       [existing_urls EXCEPT
                          ![r] = TrackAdded(existing_urls[r], e.url)]
                  /\ created' = [created EXCEPT
                                   ![r] = created[r] \cup {e.url}]
                  /\ UNCHANGED <<errors>>
               \/ \* add_event raises
                  /\ errors' = [errors EXCEPT ![r] = CountError(errors[r])]
                  /\ UNCHANGED <<store, added, existing_urls, created>>
            /\ UNCHANGED <<skipped>>
    /\ UNCHANGED <<now, pc, runs, has_more, start_cursor, deleted, kept,
                   today, response>>
    /\ UNCHANGED nonGw

\* one iteration of `for event in events`, the candidate being any event an
\* adapter can produce
ProcessEvent(r) ==
    /\ pc[r] = "loop"
    /\ idx[r] < MaxEvents
    /\ \E e \in EventPool : ProcessCandidate(r, e)

\* the list of candidates is exhausted: add_events returns its counters
FinishAddEvents(r) ==
    /\ pc[r] = "loop"
    /\ pc' = [pc EXCEPT ![r] = "done"]
    /\ UNCHANGED <<now, store, runs, event, existing_urls, has_more,
                   start_cursor, idx, added, skipped, errors, deleted, kept,
                   today, response, admitted, created>>
    /\ UNCHANGED nonGw

\* the process is interrupted in the middle of a call: there is no
\* checkpoint, the locals of the call are lost and the store stays as it is
Interrupt(r) ==
    /\ Active(r)
    /\ pc' = [pc EXCEPT ![r] = "killed"]
    /\ Locals(r)
    /\ event' = [event EXCEPT ![r] = NoEvent]
    /\ today' = [today EXCEPT ![r] = None]
    /\ UNCHANGED <<now, store, runs>>
    /\ UNCHANGED nonGw

-----------------------------------------------------------------------------
(* NotionEventClient.cleanup_past_events *)

\* cleanup_past_events is called: `today = datetime.now().date()`
StartCleanup(r) ==
    /\ ~Active(r)
    /\ runs < MaxRuns
    /\ today' = [today EXCEPT ![r] = DateOf(now)]
    /\ pc' = [pc EXCEPT ![r] = "cquery"]
    /\ Reset(r)
    /\ UNCHANGED <<now, store, event>>
    /\ UNCHANGED nonGw

\* the query for pages whose Date is before today
CleanupQuery(r) ==
    /\ pc[r] = "cquery"
    /\ response' = [response EXCEPT
                      ![r] = Query(store, start_cursor[r], today[r])]
    /\ pc' = [pc EXCEPT ![r] = "centry"]
    /\ UNCHANGED <<now, store, runs, event, existing_urls, has_more,
                   start_cursor, idx, added, skipped, errors, deleted, kept,
                   today, admitted, created>>
    /\ UNCHANGED nonGw

\* `if end_date >= today`
StillOngoing_Strict(end_date, day) == DateLT(day, end_date)

StillOngoing(end_date, day) == DateGE(end_date, day)

\* `if end_date_str:` and the comparison under it
KeepsEntry(page, day) ==
    /\ page.end # None
    /\ StillOngoing(ParseEndDate(page.end), day)

\* one iteration of `for page in response["results"]`
CleanupEntry(r) ==
    /\ pc[r] = "centry"
    /\ response[r].results # <<>>
    /\ LET entry == Head(response[r].results)
       IN  /\ response' = [response EXCEPT
                             ![r].results = Tail(response[r].results)]
           /\ idx' = [idx EXCEPT ![r] = idx[r] + 1]
           /\ IF KeepsEntry(entry.page, today[r])
              THEN /\ kept' = [kept EXCEPT ![r] = kept[r] + 1]
                   /\ UNCHANGED <<store, deleted, errors>>
              ELSE /\ \/ \* pages.update(archived=True) returns
                         /\ store' = [store EXCEPT ![entry.id].archived = TRUE]
                         /\ deleted' = [deleted EXCEPT ![r] = deleted[r] + 1]
                         /\ UNCHANGED <<errors>>
                      \/ \* pages.update raises
                         /\ errors' = [errors EXCEPT ![r] = CountError(errors[r])]
                         /\ UNCHANGED <<store, deleted>>
                   /\ UNCHANGED <<kept>>
    /\ UNCHANGED <<now, pc, runs, event, existing_urls, has_more,
                   start_cursor, added, skipped, today, admitted, created>>
    /\ UNCHANGED nonGw

\* the response is used up: has_more and start_cursor are taken from it and
\* the `while has_more` loop goes on or cleanup_past_events returns
CleanupNextPage(r) ==
    /\ pc[r] = "centry"
    /\ response[r].results = <<>>
    /\ has_more' = [has_more EXCEPT ![r] = response[r].has_more]
    /\ start_cursor' = [start_cursor EXCEPT ![r] = response[r].next_cursor]
    /\ pc' = [pc EXCEPT ![r] = IF response[r].has_more THEN "cquery" ELSE "cdone"]
    /\ UNCHANGED <<now, store, runs, event, existing_urls, idx, added,
                   skipped, errors, deleted, kept, today, response,
                   admitted, created>>
    /\ UNCHANGED nonGw

-----------------------------------------------------------------------------
(* Date texts and strptime                                                  *)
(*                                                                          *)
(* A date text is a sequence of lexical tokens [k, s, n]: a word (a         *)
(* weekday or month name), a number, a comma, a slash, a run of white       *)
(* space, an H:MM time (n = 100 * H + MM), and the letters glued to a time  *)
(* ("p", "pm", "AM", ...), kind "mark".                                     *)

Tok(k, s, n) == [k |-> k, s |-> s, n |-> n]

SP == Tok(" ", " ", 0)
COMMA == Tok(",", ",", 0)
SLASH == Tok("/", "/", 0)
Word(s) == Tok("word", s, 0)
Num(n) == Tok("num", "", n)
HM(n) == Tok("hm", "", n)
Mark(s) == Tok("mark", s, 0)

RECURSIVE LStrip(_, _)
LStrip(t, kinds) ==
    IF t # <<>> /\ Head(t).k \in kinds THEN LStrip(Tail(t), kinds) ELSE t

RECURSIVE RStrip(_, _)
RStrip(t, kinds) ==
    IF t # <<>> /\ t[Len(t)].k \in kinds
    THEN RStrip(SubSeq(t, 1, Len(t) - 1), kinds)
    ELSE t

\* str.strip() and str.strip(' ,...')
Strip(t) == RStrip(LStrip(t, {" "}), {" "})
StripPunct(t) == RStrip(LStrip(t, {" ", ","}), {" ", ","})

\* re.sub(r'\s+', ' ', s): adjacent white-space tokens become one
RECURSIVE CollapseSpaces(_)
CollapseSpaces(t) ==
    IF Len(t) < 2 THEN t
    ELSE IF t[1].k = " " /\ t[2].k = " " THEN CollapseSpaces(Tail(t))
    ELSE <<Head(t)>> \o CollapseSpaces(Tail(t))

FullWeekdays == {"Sunday", "Monday"}
AbbrWeekdays == {"Sun", "Mon"}
FullMonths == <<"January", "February">>
AbbrMonths == <<"Jan", "Feb">>

Range(f) == { f[i] : i \in DOMAIN f }

MonthOf(names, s) == CHOOSE i \in DOMAIN names : names[i] = s

IsLeap(y) == (y % 4 = 0 /\ y % 100 # 0) \/ y % 400 = 0

DaysInMonth(y, m) ==
    IF m \in {1, 3, 5, 7, 8, 10, 12} THEN 31
    ELSE IF m = 2 THEN (IF IsLeap(y) THEN 29 ELSE 28)
    ELSE 30

\* does token t match the strptime directive (or literal) dir
Matches(t, dir) ==
    CASE dir = "%A" -> t.k = "word" /\ t.s \in FullWeekdays
      [] dir = "%a" -> t.k = "word" /\ t.s \in AbbrWeekdays
      [] dir = "%B" -> t.k = "word" /\ t.s \in Range(FullMonths)
      [] dir = "%b" -> t.k = "word" /\ t.s \in Range(AbbrMonths)
      [] dir = "%d" -> t.k = "num" /\ t.n >= 1 /\ t.n <= 31
      [] dir = "%m" -> t.k = "num" /\ t.n >= 1 /\ t.n <= 12
      [] dir = "%Y" -> t.k = "num" /\ t.n >= 1000 /\ t.n <= 9999
      [] OTHER      -> t.k = dir

NoMatch == [ok |-> FALSE, y |-> 0, m |-> 0, d |-> 0]

\* the year a datetime has when the format carries no %Y
SentinelYear == 1900

\* datetime.strptime(string, fmt): ValueError is ok = FALSE; white space in
\* the format matches any run of white space
Strptime(string, fmt) ==
    LET text == CollapseSpaces(string) IN
    IF Len(text) # Len(fmt) \/ \E i \in 1..Len(fmt) : ~Matches(text[i], fmt[i])
    THEN NoMatch
    ELSE LET At1(dirs) == text[CHOOSE i \in 1..Len(fmt) : fmt[i] \in dirs]
             y == IF "%Y" \in Range(fmt) THEN At1({"%Y"}).n ELSE SentinelYear
             m == IF "%B" \in Range(fmt) THEN MonthOf(FullMonths, At1({"%B"}).s)
                  ELSE IF "%b" \in Range(fmt)
                       THEN MonthOf(AbbrMonths, At1({"%b"}).s)
                       ELSE At1({"%m"}).n
             d == At1({"%d"}).n
         IN  IF d <= DaysInMonth(y, m)
             THEN [ok |-> TRUE, y |-> y, m |-> m, d |-> d]
             ELSE NoMatch

\* the formats of the scrapers, as sequences of directives and literals
F_A_b_d_Y == <<"%A", ",", " ", "%b", " ", "%d", ",", " ", "%Y">>
F_A_B_d_Y == <<"%A", ",", " ", "%B", " ", "%d", ",", " ", "%Y">>
F_a_b_d_Y == <<"%a", ",", " ", "%b", " ", "%d", ",", " ", "%Y">>
F_B_d_Y == <<"%B", " ", "%d", ",", " ", "%Y">>
F_b_d_Y == <<"%b", " ", "%d", ",", " ", "%Y">>
F_A_b_d == <<"%A", ",", " ", "%b", " ", "%d">>
F_A_B_d == <<"%A", ",", " ", "%B", " ", "%d">>
F_a_b_d == <<"%a", ",", " ", "%b", " ", "%d">>
F_m_d_Y == <<"%m", "/", "%d", "/", "%Y">>
F_d_B_Y == <<"%d", " ", "%B", " ", "%Y">>
F_d_b_Y == <<"%d", " ", "%b", " ", "%Y">>
F_b_d == <<"%b", " ", "%d">>

BostonFormats ==
    <<F_A_b_d_Y, F_A_B_d_Y, F_a_b_d_Y, F_B_d_Y, F_b_d_Y, F_A_b_d, F_a_b_d>>

ISBCCFormats ==
    <<F_B_d_Y, F_b_d_Y, F_m_d_Y, F_A_B_d_Y, F_a_b_d_Y, F_A_B_d, F_a_b_d,
      F_d_B_Y, F_d_b_Y>>

UniversityFormats ==
    <<F_B_d_Y, F_b_d_Y, F_m_d_Y, F_A_B_d_Y, F_A_B_d, F_a_b_d, F_d_b_Y,
      F_a_b_d_Y>>

MeetupFormats ==
    <<F_a_b_d, F_B_d_Y, F_b_d_Y, F_A_B_d, F_m_d_Y, F_b_d, F_a_b_d_Y>>

\* index of the first format strptime accepts, 0 when every one raises
FirstMatch(formats, text) ==
    LET S == { k \in 1..Len(formats) : Strptime(text, formats[k]).ok }
    IN  IF S = {} THEN 0 ELSE CHOOSE k \in S : \A j \in S : k <= j

-----------------------------------------------------------------------------
(* The time patterns of the scrapers *)

Lower(s) ==
    CASE s \in {"a", "A"} -> "a"
      [] s \in {"p", "P"} -> "p"
      [] s \in {"am", "AM", "Am", "aM"} -> "am"
      [] s \in {"pm", "PM", "Pm", "pM"} -> "pm"
      [] OTHER -> s

\* r'(\d{1,2}:\d{2})([ap]m?)' with re.IGNORECASE, at position i
BostonTimeAt(t, i) ==
    /\ t[i].k = "hm"
    /\ i < Len(t)
    /\ t[i + 1].k = "mark"
    /\ Lower(t[i + 1].s) \in {"a", "p", "am", "pm"}

\* re.sub(r'\d{1,2}:\d{2}[ap]m?', '', date_text, flags=re.IGNORECASE)
RECURSIVE BostonRemoveTimes(_)
BostonRemoveTimes(t) ==
    IF t = <<>> THEN <<>>
    ELSE IF BostonTimeAt(t, 1) THEN BostonRemoveTimes(SubSeq(t, 3, Len(t)))
    ELSE <<Head(t)>> \o BostonRemoveTimes(Tail(t))

\* r'(\d{1,2}:\d{2}\s*(?:AM|PM|am|pm)?)' at position i: the number of
\* tokens the match takes (0: no match at i)
PlainTimeLen(t, i) ==
    IF t[i].k # "hm" THEN 0
    ELSE LET sp == IF i < Len(t) /\ t[i + 1].k = " " THEN 1 ELSE 0
             j  == i + sp + 1
             mk == IF j <= Len(t) /\ t[j].k = "mark"
                      /\ t[j].s \in {"AM", "PM", "am", "pm"}
                   THEN 1 ELSE 0
         IN  1 + sp + mk

\* re.sub(r'\d{1,2}:\d{2}\s*(?:AM|PM|am|pm)?', '', date_text)
RECURSIVE PlainRemoveTimes(_)
PlainRemoveTimes(t) ==
    IF t = <<>> THEN <<>>
    ELSE IF PlainTimeLen(t, 1) > 0
         THEN PlainRemoveTimes(SubSeq(t, PlainTimeLen(t, 1) + 1, Len(t)))
         ELSE <<Head(t)>> \o PlainRemoveTimes(Tail(t))

PlainTimeAt(t, i) == PlainTimeLen(t, i) > 0

\* the least position of a set of positions, 0 when there is none
Leftmost(S) == IF S = {} THEN 0 ELSE CHOOSE i \in S : \A j \in S : i <= j

\* re.search: the leftmost position where the pattern matches, 0 for None
BostonFirstTime(t) == Leftmost({ i \in 1..Len(t) : BostonTimeAt(t, i) })

PlainFirstTime(t) == Leftmost({ i \in 1..Len(t) : PlainTimeAt(t, i) })

-----------------------------------------------------------------------------
(* The scrapers' _parse_date_time *)

\* datetime.__lt__
DtLT(a, b) ==
    \/ DateLT(DateOf(a), DateOf(b))
    \/ DateOf(a) = DateOf(b) /\ a.tod < b.tod

\* `if parsed < datetime.now()`
IsPast(parsed, clock) == DtLT(parsed, clock)

\* `if parsed.year == 1900:` replace the year by the current one, and by
\* the next one when the result is in the past
ResolveYear(p, clock) ==
    IF p.y = SentinelYear
    THEN LET cur == [y |-> clock.y, m |-> p.m, d |-> p.d, tod |-> 0]
         IN  IF IsPast(cur, clock) THEN [cur EXCEPT !.y = clock.y + 1] ELSE cur
    ELSE [y |-> p.y, m |-> p.m, d |-> p.d, tod |-> 0]

\* what _parse_date_time returns when every format raises ValueError
Unparsed(clock) == clock

\* f"{hour_min} PM" / f"{hour_min} AM"
BostonTimeStr(t, i) ==
    <<t[i], SP,
      Mark(IF Lower(t[i + 1].s) \in {"p", "pm"} THEN "PM" ELSE "AM")>>

\* re.sub(<time pattern>, '', date_text, flags=re.IGNORECASE).strip(), and
\* the .strip() at the strptime call
BostonDateOnly(text) == Strip(Strip(BostonRemoveTimes(text)))

\* BostonCalendarScraper._parse_date_time
BostonParseDateTime(text, clock) ==
    LET i == BostonFirstTime(text)
        time_str == IF i = 0 THEN None ELSE BostonTimeStr(text, i)
        date_only == BostonDateOnly(text)
        k == FirstMatch(BostonFormats, date_only)
    IN  IF k = 0
        THEN [date |-> Unparsed(clock), time |-> time_str]
        ELSE [date |-> ResolveYear(Strptime(date_only, BostonFormats[k]), clock),
              time |-> time_str]

\* time_match.group(1).strip()
PlainTimeStr(t, i) == Strip(SubSeq(t, i, i + PlainTimeLen(t, i) - 1))

\* re.sub(<time pattern>, '', date_text).strip(), and the .strip() at the
\* strptime call
ISBCCDateOnly(text) == Strip(Strip(PlainRemoveTimes(text)))

\* ISBCCScraper._parse_date_time
ISBCCParseDateTime(text, clock) ==
    LET i == PlainFirstTime(text)
        time_str == IF i = 0 THEN None ELSE PlainTimeStr(text, i)
        date_only == ISBCCDateOnly(text)
        k == FirstMatch(ISBCCFormats, date_only)
    IN  IF k = 0
        THEN [date |-> Unparsed(clock), time |-> time_str]
        ELSE [date |-> ResolveYear(Strptime(date_only, ISBCCFormats[k]), clock),
              time |-> time_str]

\* the two re.sub calls, the strip of blanks and punctuation, and the
\* .strip() at the strptime call
UniversityDateOnly(text) ==
    Strip(StripPunct(CollapseSpaces(Strip(PlainRemoveTimes(text)))))

\* UniversityEventsScraper._parse_date_time
UniversityParseDateTime(text, clock) ==
    LET i == PlainFirstTime(text)
        time_str == IF i = 0 THEN None ELSE PlainTimeStr(text, i)
        date_only == UniversityDateOnly(text)
        k == FirstMatch(UniversityFormats, date_only)
    IN  IF k = 0
        THEN [date |-> Unparsed(clock), time |-> time_str]
        ELSE [date |-> ResolveYear(Strptime(date_only, UniversityFormats[k]),
                                   clock),
              time |-> time_str]

\* the two re.sub calls and the strip of blanks and punctuation
MeetupDateOnly(text) ==
    StripPunct(CollapseSpaces(Strip(PlainRemoveTimes(text))))

\* MeetupScraper._parse_date_time, the `for fmt in formats` loop from format
\* k on: strptime or either of the two replace(year=...) calls may raise
\* ValueError (29 February), the loop then goes on with the date assigned so
\* far
RECURSIVE MeetupTryFormats(_, _, _, _)
MeetupTryFormats(date_only, k, date, clock) ==
    IF k > Len(MeetupFormats) THEN date
    ELSE LET p == Strptime(date_only, MeetupFormats[k])
             cur == [y |-> clock.y, m |-> p.m, d |-> p.d, tod |-> 0]
         IN  IF ~p.ok \/ p.d > DaysInMonth(clock.y, p.m)
             THEN MeetupTryFormats(date_only, k + 1, date, clock)
             ELSE IF ~IsPast(cur, clock) THEN cur
             ELSE IF p.d > DaysInMonth(clock.y + 1, p.m)
             THEN MeetupTryFormats(date_only, k + 1, cur, clock)
             ELSE [cur EXCEPT !.y = clock.y + 1]

\* MeetupScraper._parse_date_time
MeetupParseDateTime(text, clock) ==
    LET i == PlainFirstTime(text)
        time_str == IF i = 0 THEN None ELSE PlainTimeStr(text, i)
    IN  [date |-> MeetupTryFormats(MeetupDateOnly(text), 1, Unparsed(clock),
                                   clock),
         time |-> time_str]

-----------------------------------------------------------------------------
(* EventbriteScraper._parse_json_ld: the startDate of a JSON-LD record      *)
(*                                                                          *)
(* An ISO-8601 string is the record [y, m, d, T, h, mi, off]: T says        *)
(* whether it has a time part, off is the written offset ("" when none).    *)

\* the empty string: the record has no startDate
IsoEmpty == [y |-> 0, m |-> 0, d |-> 0, T |-> FALSE, h |-> 0, mi |-> 0, off |-> ""]

OffsetMinutes(off) ==
    CASE off = "+00:00" -> 0
      [] off = "-05:00" -> -300
      [] off = "+05:30" -> 330
      [] off = "+14:00" -> 840
      [] OTHER -> 0

\* start_date_str.replace("Z", "+00:00")
ReplaceZ(s) == [s EXCEPT !.off = IF @ = "Z" THEN "+00:00" ELSE @]

\* datetime.fromisoformat: the fields as written, tzinfo from the offset
FromIsoFormat(s) ==
    [y |-> s.y, m |-> s.m, d |-> s.d, h |-> s.h, mi |-> s.mi, tzinfo |-> s.off]

\* the aware datetime converted to UTC before the offset is dropped
NaiveOf_Utc(dt) ==
    LET t == dt.h * 60 + dt.mi - OffsetMinutes(dt.tzinfo)
    IN  IF t < 0
        THEN IF dt.d > 1
             THEN [y |-> dt.y, m |-> dt.m, d |-> dt.d - 1, tod |-> t + 1440]
             ELSE IF dt.m > 1
                  THEN [y |-> dt.y, m |-> dt.m - 1,
                        d |-> DaysInMonth(dt.y, dt.m - 1), tod |-> t + 1440]
                  ELSE [y |-> dt.y - 1, m |-> 12, d |-> 31, tod |-> t + 1440]
        ELSE IF t >= 1440
        THEN IF dt.d < DaysInMonth(dt.y, dt.m)
             THEN [y |-> dt.y, m |-> dt.m, d |-> dt.d + 1, tod |-> t - 1440]
             ELSE IF dt.m < 12
                  THEN [y |-> dt.y, m |-> dt.m + 1, d |-> 1, tod |-> t - 1440]
                  ELSE [y |-> dt.y + 1, m |-> 1, d |-> 1, tod |-> t - 1440]
        ELSE [y |-> dt.y, m |-> dt.m, d |-> dt.d, tod |-> t]

\* dt.replace(tzinfo=None): the wall-clock fields, the offset dropped
NaiveOf(dt) == [y |-> dt.y, m |-> dt.m, d |-> dt.d, tod |-> dt.h * 60 + dt.mi]

Digits == <<"0", "1", "2", "3", "4", "5", "6", "7", "8", "9">>

TwoDigits(n) == <<Digits[(n \div 10) + 1], Digits[(n % 10) + 1]>>

\* dt.strftime("%I:%M %p"), a sequence of characters
StrftimeIMp(dt) ==
    LET h12 == IF dt.h % 12 = 0 THEN 12 ELSE dt.h % 12
    IN  TwoDigits(h12) \o <<":">> \o TwoDigits(dt.mi) \o <<" ">>
        \o (IF dt.h < 12 THEN <<"A", "M">> ELSE <<"P", "M">>)

\* str.lstrip("0")
RECURSIVE LStripZero(_)
LStripZero(cs) ==
    IF cs # <<>> /\ Head(cs) = "0" THEN LStripZero(Tail(cs)) ELSE cs

\* the date and time_str _parse_json_ld takes from startDate
EventbriteParseStartDate(start, clock) ==
    IF start = IsoEmpty THEN [date |-> clock, time |-> None]
    ELSE IF start.T
         THEN LET dt == FromIsoFormat(ReplaceZ(start))
              IN  [date |-> NaiveOf(dt), time |-> LStripZero(StrftimeIMp(dt))]
         ELSE [date |-> At(<<start.y, start.m, start.d>>, 0), time |-> None]

-----------------------------------------------------------------------------
(* The gateway under single-flight execution, and with overlapping calls *)

SeedStores == { SubSeq(SeedList, 1, k) : k \in 0..Min(MaxSeed, Len(SeedList)) }

Clock == { At(D1, 600), At(D2, 600) }

GwIdle ==
    /\ pc = [r \in Procs |-> "idle"]
    /\ runs = 0
    /\ event = [r \in Procs |-> NoEvent]
    /\ existing_urls = [r \in Procs |-> {}]
    /\ has_more = [r \in Procs |-> FALSE]
    /\ start_cursor = [r \in Procs |-> NoCursor]
    /\ idx = [r \in Procs |-> 0]
    /\ added = [r \in Procs |-> 0]
    /\ skipped = [r \in Procs |-> 0]
    /\ errors = [r \in Procs |-> 0]
    /\ deleted = [r \in Procs |-> 0]
    /\ kept = [r \in Procs |-> 0]
    /\ today = [r \in Procs |-> None]
    /\ response = [r \in Procs |-> NoResponse]
    /\ admitted = [r \in Procs |-> {}]
    /\ created = [r \in Procs |-> {}]

NoResult == [date |-> At(D0, 0), time |-> None]

NzIdle ==
    /\ norm_pc = "idle"
    /\ norm_adapter = ""
    /\ date_text = <<>>
    /\ start_date_str = IsoEmpty
    /\ norm_result = NoResult

NoSite == [boston |-> <<>>, links |-> <<>>, cards |-> <<>>]

MnIdle ==
    /\ main_pc = "idle"
    /\ scraper = 0
    /\ all_events = <<>>
    /\ site = NoSite
    /\ configured = TRUE
    /\ failed = FALSE

GwInit ==
    /\ now \in Clock
    /\ store \in SeedStores
    /\ GwIdle

Init == GwInit /\ NzIdle /\ MnIdle /\ ExtIdle

RunAddEvents(r) == SingleFlight(r) /\ StartAddEvents(r)

RunCleanup(r) == SingleFlight(r) /\ StartCleanup(r)

Next ==
    \E r \in Procs :
        \/ RunAddEvents(r)
        \/ GetExistingUrls(r)
        \/ ProcessEvent(r)
        \/ FinishAddEvents(r)
        \/ RunCleanup(r)
        \/ CleanupQuery(r)
        \/ CleanupEntry(r)
        \/ CleanupNextPage(r)
        \/ Interrupt(r)

Spec == Init /\ [][Next]_vars

\* overlapping schedules: a call may start while another is in progress
NextConc ==
    \E r \in Procs :
        \/ StartAddEvents(r)
        \/ GetExistingUrls(r)
        \/ ProcessEvent(r)
        \/ FinishAddEvents(r)
        \/ Interrupt(r)

SpecConc == Init /\ [][NextConc]_vars

-----------------------------------------------------------------------------
(* The normalizers applied to bounded sets of inputs *)

MonthDays == { <<1, 31>>, <<2, 1>>, <<2, 2>>, <<2, 29>> }

Years == { 2025, 2026 }

\* the date part of a date text for month m, day d, year y, in the layouts
\* the scraped sites use, and two texts that are no date at all
DateParts(m, d, y) ==
    { <<Word("Sunday"), COMMA, SP, Word(AbbrMonths[m]), SP, Num(d), COMMA, SP, Num(y)>>,
      <<Word(FullMonths[m]), SP, Num(d), COMMA, SP, Num(y)>>,
      <<Word(AbbrMonths[m]), SP, Num(d), COMMA, SP, Num(y)>>,
      <<Word("Sunday"), COMMA, SP, Word(AbbrMonths[m]), SP, Num(d)>>,
      <<Word("Sun"), COMMA, SP, Word(AbbrMonths[m]), SP, Num(d)>>,
      <<Num(m), SLASH, Num(d), SLASH, Num(y)>>,
      <<Word(AbbrMonths[m]), SP, Num(d)>>,
      <<Word("Tomorrow")>>,
      <<>> }

\* what follows the date part: nothing, or a time with or without a marker
TimeParts ==
    { <<>>,
      <<SP, HM(700)>>,
      <<SP, HM(700), Mark("p")>>,
      <<SP, HM(700), Mark("pm")>>,
      <<SP, HM(1030), Mark("AM")>>,
      <<SP, HM(700), SP, Mark("PM")>>,
      <<SP, HM(700), Mark("Pm")>>,
      <<SP, HM(1900)>> }

DateTexts ==
    { dp \o tp : dp \in UNION { DateParts(md[1], md[2], y) :
                                  md \in MonthDays, y \in Years },
                 tp \in TimeParts }

IsoTimes == { <<0, 30>>, <<7, 0>>, <<12, 5>>, <<23, 30>> }

IsoStrings ==
    { [y |-> 2026, m |-> md[1], d |-> md[2], T |-> TRUE, h |-> t[1], mi |-> t[2],
       off |-> off] :
        md \in { <<1, 31>>, <<2, 1>> }, t \in IsoTimes,
        off \in { "Z", "+00:00", "-05:00", "+05:30", "+14:00", "" } }
    \cup { [y |-> 2026, m |-> 2, d |-> 1, T |-> FALSE, h |-> 0, mi |-> 0, off |-> ""],
           IsoEmpty }

TextAdapters == { "Boston Calendar", "ISBCC", "University Events", "Meetup" }

NormClock == { At(D2, 0), At(D2, 600) }

NormInit ==
    /\ now \in NormClock
    /\ store = <<>>
    /\ GwIdle
    /\ norm_pc = "ready"
    /\ norm_adapter \in TextAdapters \cup {"Eventbrite"}
    /\ date_text \in IF norm_adapter = "Eventbrite" THEN {<<>>} ELSE DateTexts
    /\ start_date_str \in IF norm_adapter = "Eventbrite" THEN IsoStrings
                          ELSE {IsoEmpty}
    /\ norm_result = NoResult
    /\ MnIdle
    /\ ExtIdle

\* BostonCalendarScraper._parse_event_item: `date, time_str = self._parse_date_time(date_text)`
CallBostonParse ==
    /\ norm_pc = "ready"
    /\ norm_adapter = "Boston Calendar"
    /\ norm_result' = BostonParseDateTime(date_text, now)
    /\ norm_pc' = "applied"
    /\ UNCHANGED <<norm_adapter, date_text, start_date_str>>
    /\ UNCHANGED nonNz

\* ISBCCScraper._parse_event_item: `date, time_str = self._parse_date_time(date_text)`
CallISBCCParse ==
    /\ norm_pc = "ready"
    /\ norm_adapter = "ISBCC"
    /\ norm_result' = ISBCCParseDateTime(date_text, now)
    /\ norm_pc' = "applied"
    /\ UNCHANGED <<norm_adapter, date_text, start_date_str>>
    /\ UNCHANGED nonNz

\* UniversityEventsScraper._parse_event_item: the same call
CallUniversityParse ==
    /\ norm_pc = "ready"
    /\ norm_adapter = "University Events"
    /\ norm_result' = UniversityParseDateTime(date_text, now)
    /\ norm_pc' = "applied"
    /\ UNCHANGED <<norm_adapter, date_text, start_date_str>>
    /\ UNCHANGED nonNz

\* MeetupScraper._parse_event_card: the same call
CallMeetupParse ==
    /\ norm_pc = "ready"
    /\ norm_adapter = "Meetup"
    /\ norm_result' = MeetupParseDateTime(date_text, now)
    /\ norm_pc' = "applied"
    /\ UNCHANGED <<norm_adapter, date_text, start_date_str>>
    /\ UNCHANGED nonNz

\* EventbriteScraper._parse_json_ld: the startDate block
CallEventbriteParse ==
    /\ norm_pc = "ready"
    /\ norm_adapter = "Eventbrite"
    /\ norm_result' = EventbriteParseStartDate(start_date_str, now)
    /\ norm_pc' = "applied"
    /\ UNCHANGED <<norm_adapter, date_text, start_date_str>>
    /\ UNCHANGED nonNz

NextNorm ==
    \/ CallBostonParse
    \/ CallISBCCParse
    \/ CallUniversityParse
    \/ CallMeetupParse
    \/ CallEventbriteParse

SpecNorm == NormInit /\ [][NextNorm]_vars

-----------------------------------------------------------------------------
(* main: scrape every source, then push the events to the store             *)

\* the `scrapers` list of main, in its order
Scrapers ==
    <<"EventbriteScraper", "BostonCalendarScraper", "AllEventsScraper",
      "SulekhaScraper", "GoogleEventsScraper", "FacebookEventsScraper",
      "BandsintownScraper", "MeetupScraper", "ISBCCScraper",
      "UniversityEventsScraper">>

\* keywords of scrapers/base.py (a few of each list); an event name of the
\* model is one lower-case word, so `kw in text` is membership
SOUTH_ASIAN_KEYWORDS ==
    {"indian", "desi", "bhangra", "garba", "holi", "diwali", "chai"}
MIDDLE_EASTERN_KEYWORDS == {"persian", "nowruz", "iftar", "eid"}
GeneralKeywords == {"pottery", "yoga", "gallery"}

BostonBase == "https://www.thebostoncalendar.com"
MeetupBase == "https://www.meetup.com"

\* `if not url.startswith("http"): url = self.base_url + url`
AbsoluteHrefs == {"https://www.meetup.com/boston-desi-social/events/3"}

AbsUrl(base, href) == IF href \in AbsoluteHrefs THEN href ELSE base \o href

\* li.event items the Boston Calendar listing can hold: name, href of the
\* h3 link, the text of p.time (has_time: the element is there), and the
\* "Event website" link of the detail page ("" when it has none)
BostonItems ==
    << [name |-> "holi", href |-> "/events/holi-night", has_time |-> TRUE,
        date_text |-> <<Word("Sunday"), COMMA, SP, Word("Feb"), SP, Num(1),
                        COMMA, SP, Num(2026), SP, HM(700), Mark("p")>>,
        website |-> "https://tickets.example.org/holi"],
       [name |-> "yoga", href |-> "/events/yoga", has_time |-> TRUE,
        date_text |-> <<Word("Tomorrow")>>, website |-> ""],
       [name |-> "garba", href |-> "/events/garba", has_time |-> FALSE,
        date_text |-> <<>>, website |-> ""],
       [name |-> "diwali", href |-> "/events/diwali", has_time |-> TRUE,
        date_text |-> <<Word("Monday"), COMMA, SP, Word("Jan"), SP, Num(30),
                        COMMA, SP, Num(2026)>>,
        website |-> ""],
       [name |-> "trivia", href |-> "/events/trivia", has_time |-> TRUE,
        date_text |-> <<Word("Tomorrow")>>, website |-> ""] >>

\* <a href=".../events/..."> links of the Meetup city page
MeetupLinks ==
    << [name |-> "diwali", href |-> "/boston-desi-social/events/1"],
       [name |-> "holi", href |-> "/boston-desi-social/events/2"],
       [name |-> "trivia", href |-> "/boston-trivia/events/9"] >>

\* event cards of a Meetup group page: the text of <time> when it is there
MeetupCards ==
    << [name |-> "bhangra",
        href |-> "https://www.meetup.com/boston-desi-social/events/3",
        has_time |-> TRUE,
        date_text |-> <<Word("Sun"), COMMA, SP, Word("Feb"), SP, Num(2), SP,
                        HM(700), SP, Mark("PM")>>],
       [name |-> "diwali", href |-> "/boston-desi-social/events/1",
        has_time |-> FALSE, date_text |-> <<>>] >>

\* the sub-lists of a list, each in the order of the list
SubLists(items) ==
    { [k \in 1..Cardinality(S) |-> items[SortedSeq(S)[k]]] :
        S \in SUBSET (1..Len(items)) }

\* Event(...) as far as the gateway reads it
MkEvent(name, url, source, date) ==
    [name |-> name, url |-> url, source |-> source, date |-> date]

\* BostonCalendarScraper._parse_event_item: <<>> is None
BostonParseEventItem(item, clock) ==
    IF item.name = "" \/ ~item.has_time THEN <<>>
    ELSE LET parsed == BostonParseDateTime(item.date_text, clock)
             midnight == At(DateOf(clock), 0)
         IN  IF ~DtLT(midnight, parsed.date)
                /\ DateOf(parsed.date) # DateOf(midnight)
             THEN <<>>
             ELSE <<MkEvent(item.name, AbsUrl(BostonBase, item.href),
                            "Boston Calendar", parsed.date)>>

\* BostonCalendarScraper._is_relevant
BostonIsRelevant(e) ==
    e.name \in SOUTH_ASIAN_KEYWORDS \cup MIDDLE_EASTERN_KEYWORDS
               \cup GeneralKeywords

\* BostonCalendarScraper._enrich_event_details: `if event_url: event.url = event_url`
BostonEnrich(e, item) ==
    IF item.website # "" THEN [e EXCEPT !.url = item.website] ELSE e

\* BostonCalendarScraper._parse_event_list
RECURSIVE BostonParseEventList(_, _)
BostonParseEventList(items, clock) ==
    IF items = <<>> THEN <<>>
    ELSE LET es == BostonParseEventItem(Head(items), clock)
         IN  (IF es # <<>> /\ BostonIsRelevant(es[1])
              THEN <<BostonEnrich(es[1], Head(items))>> ELSE <<>>)
             \o BostonParseEventList(Tail(items), clock)

\* `if event.url not in seen_urls: seen_urls.add(event.url); all_events.append(event)`
RECURSIVE SeenFilter(_, _)
SeenFilter(events, seen_urls) ==
    IF events = <<>> THEN <<>>
    ELSE IF Head(events).url \in seen_urls
         THEN SeenFilter(Tail(events), seen_urls)
         ELSE <<Head(events)>>
              \o SeenFilter(Tail(events), seen_urls \cup {Head(events).url})

\* BostonCalendarScraper.scrape: the main page and the keyword searches,
\* each of which lists the items of the site or fails (the exception is
\* swallowed inside scrape)
BostonScrape(items, main_ok, search_ok, clock) ==
    LET listing == BostonParseEventList(items, clock)
    IN  SeenFilter((IF main_ok THEN listing ELSE <<>>)
                   \o (IF search_ok THEN listing ELSE <<>>), {})

\* MeetupScraper._is_relevant
MeetupIsRelevant(e) ==
    e.name \in SOUTH_ASIAN_KEYWORDS \cup MIDDLE_EASTERN_KEYWORDS

\* MeetupScraper._parse_event_link: the event is dated datetime.now()
MeetupParseEventLink(link, clock) ==
    IF link.name = "" \/ Len(link.name) < 5 THEN <<>>
    ELSE <<MkEvent(link.name, AbsUrl(MeetupBase, link.href), "Meetup", clock)>>

\* MeetupScraper._scrape_boston_events
RECURSIVE MeetupScrapeBostonEvents(_, _)
MeetupScrapeBostonEvents(links, clock) ==
    IF links = <<>> THEN <<>>
    ELSE LET es == MeetupParseEventLink(Head(links), clock)
         IN  (IF es # <<>> /\ MeetupIsRelevant(es[1]) THEN es ELSE <<>>)
             \o MeetupScrapeBostonEvents(Tail(links), clock)

\* MeetupScraper._parse_event_card
MeetupParseEventCard(card, clock) ==
    IF card.name = "" \/ Len(card.name) < 5 THEN <<>>
    ELSE LET date == IF card.has_time
                     THEN MeetupParseDateTime(card.date_text, clock).date
                     ELSE clock
         IN  <<MkEvent(card.name, AbsUrl(MeetupBase, card.href), "Meetup", date)>>

\* MeetupScraper._scrape_group
RECURSIVE MeetupScrapeGroup(_, _)
MeetupScrapeGroup(cards, clock) ==
    IF cards = <<>> THEN <<>>
    ELSE MeetupParseEventCard(Head(cards), clock)
         \o MeetupScrapeGroup(Tail(cards), clock)

\* MeetupScraper.scrape once the browser is up: the city page, then the
\* group pages (one group has a page with cards, the others have none)
MeetupScrape(links, cards, city_ok, clock) ==
    SeenFilter((IF city_ok THEN MeetupScrapeBostonEvents(links, clock) ELSE <<>>)
               \o MeetupScrapeGroup(cards, clock), {})

MainInit ==
    /\ now \in Clock
    /\ store = <<>>
    /\ GwIdle
    /\ NzIdle
    /\ main_pc = "scrape"
    /\ scraper = 1
    /\ all_events = <<>>
    /\ site \in [boston : SubLists(BostonItems), links : SubLists(MeetupLinks),
                 cards : SubLists(MeetupCards)]
    /\ configured \in BOOLEAN
    /\ failed = FALSE
    /\ ExtIdle

\* the `for scraper in scrapers` loop goes to its next iteration, or ends
NextScraper ==
    /\ scraper' = IF scraper < Len(Scrapers) THEN scraper + 1 ELSE scraper
    /\ main_pc' = IF scraper < Len(Scrapers) THEN "scrape" ELSE "push"

\* one iteration of the loop, for BostonCalendarScraper
MainScrapeBoston ==
    /\ main_pc = "scrape"
    /\ Scrapers[scraper] = "BostonCalendarScraper"
    /\ \E main_ok, search_ok \in BOOLEAN :
         all_events' =
            all_events \o BostonScrape(site.boston, main_ok, search_ok, now)
    /\ NextScraper
    /\ UNCHANGED <<site, configured, failed>>
    /\ UNCHANGED nonMn

\* one iteration of the loop, for MeetupScraper: Playwright is missing
\* (scrape returns []), or the pages are scraped
MainScrapeMeetup ==
    /\ main_pc = "scrape"
    /\ Scrapers[scraper] = "MeetupScraper"
    /\ \/ all_events' = all_events
       \/ \E city_ok \in BOOLEAN :
            all_events' =
               all_events \o MeetupScrape(site.links, site.cards, city_ok, now)
    /\ NextScraper
    /\ UNCHANGED <<site, configured, failed>>
    /\ UNCHANGED nonMn

\* one iteration of the loop, for a scraper whose site lists nothing during
\* this run: scrape returns []
MainScrapeOther ==
    /\ main_pc = "scrape"
    /\ Scrapers[scraper] \notin {"BostonCalendarScraper", "MeetupScraper"}
    /\ all_events' = all_events
    /\ NextScraper
    /\ UNCHANGED <<site, configured, failed>>
    /\ UNCHANGED nonMn

\* `events = scraper.scrape()` raises (the browser of MeetupScraper fails
\* to start, a request of another scraper fails): control is in the except
\* branch.  BostonCalendarScraper.scrape catches what its pages raise.
MainScrapeRaises ==
    /\ main_pc = "scrape"
    /\ Scrapers[scraper] # "BostonCalendarScraper"
    /\ main_pc' = "except"
    /\ failed' = TRUE
    /\ UNCHANGED <<scraper, all_events, site, configured>>
    /\ UNCHANGED nonMn

\* the except branch ends the run
MainScrapeError_Fatal ==
    /\ main_pc = "except"
    /\ main_pc' = "done"
    /\ UNCHANGED <<scraper, all_events, site, configured, failed>>
    /\ UNCHANGED nonMn

\* `except Exception as e: print(f"  Error: {e}")`, then the next iteration
MainScrapeError ==
    /\ main_pc = "except"
    /\ NextScraper
    /\ UNCHANGED <<all_events, site, configured, failed>>
    /\ UNCHANGED nonMn

\* `if not all_events: return`
MainNoEvents ==
    /\ main_pc = "push"
    /\ all_events = <<>>
    /\ main_pc' = "done"
    /\ UNCHANGED <<scraper, all_events, site, configured, failed>>
    /\ UNCHANGED nonMn

\* NotionEventClient() raises ValueError: main prints it and ends
MainConnectFails ==
    /\ main_pc = "push"
    /\ all_events # <<>>
    /\ ~configured
    /\ main_pc' = "done"
    /\ UNCHANGED <<scraper, all_events, site, configured, failed>>
    /\ UNCHANGED nonMn

\* `notion = NotionEventClient()` and the call of add_events(all_events)
MainAddEvents ==
    /\ main_pc = "push"
    /\ all_events # <<>>
    /\ configured
    /\ pc[1] = "idle"
    /\ StartAddEvents(1)

\* get_existing_urls, inside the add_events call of main
MainGetExistingUrls == main_pc = "push" /\ GetExistingUrls(1)

\* one iteration of `for event in events` over all_events
MainProcessEvent ==
    /\ main_pc = "push"
    /\ pc[1] = "loop"
    /\ idx[1] < Len(all_events)
    /\ ProcessCandidate(1, all_events[idx[1] + 1])

\* add_events returns to main
MainResults ==
    /\ main_pc = "push"
    /\ idx[1] = Len(all_events)
    /\ FinishAddEvents(1)

NextMain ==
    \/ MainScrapeBoston
    \/ MainScrapeMeetup
    \/ MainScrapeOther
    \/ MainScrapeRaises
    \/ MainScrapeError
    \/ MainNoEvents
    \/ MainConnectFails
    \/ MainAddEvents
    \/ MainGetExistingUrls
    \/ MainProcessEvent
    \/ MainResults

SpecMain == MainInit /\ [][NextMain]_vars

-----------------------------------------------------------------------------
(* The categorizers: _categorize of the scrapers                            *)
(*                                                                          *)
(* A name, a description or a search term is a sequence of words; the text  *)
(* a categorizer looks at is the sequence of the characters of the words,   *)
(* joined by blanks, so that `kw in text` is a test on characters.          *)

\* the characters of the words and keywords of the model
Spell(w) ==
    CASE w = "indian" -> <<"i", "n", "d", "i", "a", "n">>
      [] w = "desi" -> <<"d", "e", "s", "i">>
      [] w = "bhangra" -> <<"b", "h", "a", "n", "g", "r", "a">>
      [] w = "garba" -> <<"g", "a", "r", "b", "a">>
      [] w = "holi" -> <<"h", "o", "l", "i">>
      [] w = "diwali" -> <<"d", "i", "w", "a", "l", "i">>
      [] w = "chai" -> <<"c", "h", "a", "i">>
      [] w = "persian" -> <<"p", "e", "r", "s", "i", "a", "n">>
      [] w = "nowruz" -> <<"n", "o", "w", "r", "u", "z">>
      [] w = "iftar" -> <<"i", "f", "t", "a", "r">>
      [] w = "eid" -> <<"e", "i", "d">>
      [] w = "art" -> <<"a", "r", "t">>
      [] w = "pottery" -> <<"p", "o", "t", "t", "e", "r", "y">>
      [] w = "food" -> <<"f", "o", "o", "d">>
      [] w = "cooking" -> <<"c", "o", "o", "k", "i", "n", "g">>
      [] w = "film" -> <<"f", "i", "l", "m">>
      [] w = "drama" -> <<"d", "r", "a", "m", "a">>
      [] w = "comedy" -> <<"c", "o", "m", "e", "d", "y">>
      [] w = "improv" -> <<"i", "m", "p", "r", "o", "v">>
      [] w = "tea" -> <<"t", "e", "a">>
      [] w = "yoga" -> <<"y", "o", "g", "a">>
      [] w = "run" -> <<"r", "u", "n">>
      [] w = "music" -> <<"m", "u", "s", "i", "c">>
      [] w = "talk" -> <<"t", "a", "l", "k">>
      [] w = "ama" -> <<"a", "m", "a">>
      [] w = "festival" -> <<"f", "e", "s", "t", "i", "v", "a", "l">>
      [] w = "prayer" -> <<"p", "r", "a", "y", "e", "r">>
      [] w = "mosque" -> <<"m", "o", "s", "q", "u", "e">>
      [] w = "tech" -> <<"t", "e", "c", "h">>
      [] w = "ai" -> <<"a", "i">>
      [] w = "community" -> <<"c", "o", "m", "m", "u", "n", "i", "t", "y">>
      [] w = "social" -> <<"s", "o", "c", "i", "a", "l">>
      [] w = "lecture" -> <<"l", "e", "c", "t", "u", "r", "e">>
      [] w = "family" -> <<"f", "a", "m", "i", "l", "y">>
      [] w = "class" -> <<"c", "l", "a", "s", "s">>
      [] w = "arabic" -> <<"a", "r", "a", "b", "i", "c">>
      [] w = "das" -> <<"d", "a", "s">>
      [] w = "Holi" -> <<"H", "o", "l", "i">>
      [] w = "party" -> <<"p", "a", "r", "t", "y">>
      [] w = "trivia" -> <<"t", "r", "i", "v", "i", "a">>
      [] w = "night" -> <<"n", "i", "g", "h", "t">>
      [] w = "boston" -> <<"b", "o", "s", "t", "o", "n">>
      [] w = "Das" -> <<"D", "a", "s">>
      [] w = "cambridge" -> <<"c", "a", "m", "b", "r", "i", "d", "g", "e">>
      [] w = "mit" -> <<"m", "i", "t">>
      [] w = "harvard" -> <<"h", "a", "r", "v", "a", "r", "d">>
      [] w = "faneuil hall" -> <<"f", "a", "n", "e", "u", "i", "l", " ", "h", "a", "l", "l">>
      [] w = "isbcc" -> <<"i", "s", "b", "c", "c">>
      [] w = "Faneuil" -> <<"F", "a", "n", "e", "u", "i", "l">>
      [] w = "Hall" -> <<"H", "a", "l", "l">>
      [] w = "Boston" -> <<"B", "o", "s", "t", "o", "n">>
      [] w = "Smith" -> <<"S", "m", "i", "t", "h">>
      [] w = "Lowell" -> <<"L", "o", "w", "e", "l", "l">>
      [] w = "Cambridge" -> <<"C", "a", "m", "b", "r", "i", "d", "g", "e">>
      [] w = "" -> <<>>
      [] w = "Party" -> <<"P", "a", "r", "t", "y">>
      [] w = "Cookie" -> <<"C", "o", "o", "k", "i", "e">>
      [] w = "policy" -> <<"p", "o", "l", "i", "c", "y">>
      [] w = "cookie" -> <<"c", "o", "o", "k", "i", "e">>
      [] w = "privacy" -> <<"p", "r", "i", "v", "a", "c", "y">>
      [] w = "restaurant" -> <<"r", "e", "s", "t", "a", "u", "r", "a", "n", "t">>
      [] w = "museum" -> <<"m", "u", "s", "e", "u", "m">>
      [] w = "hall" -> <<"h", "a", "l", "l">>
      [] w = "bar" -> <<"b", "a", "r">>
      [] w = "club" -> <<"c", "l", "u", "b">>
      [] w = "park" -> <<"p", "a", "r", "k">>
      [] w = "walk" -> <<"w", "a", "l", "k">>
      [] w = "Free" -> <<"F", "r", "e", "e">>
      [] w = "free" -> <<"f", "r", "e", "e">>
      [] w = "$10" -> <<"$", "1", "0">>
      [] w = "FREE-$10" -> <<"F", "R", "E", "E", "-", "$", "1", "0">>
      [] w = "Park" -> <<"P", "a", "r", "k">>
      [] w = "Museum" -> <<"M", "u", "s", "e", "u", "m">>

\* " ".join(words), as characters
RECURSIVE CharsOf(_)
CharsOf(words) ==
    IF words = <<>> THEN <<>>
    ELSE IF Len(words) = 1 THEN Spell(words[1])
    ELSE Spell(words[1]) \o <<" ">> \o CharsOf(Tail(words))

\* str.lower()
LowerChar(c) ==
    CASE c = "A" -> "a"
      [] c = "B" -> "b"
      [] c = "C" -> "c"
      [] c = "D" -> "d"
      [] c = "E" -> "e"
      [] c = "F" -> "f"
      [] c = "G" -> "g"
      [] c = "H" -> "h"
      [] c = "I" -> "i"
      [] c = "J" -> "j"
      [] c = "K" -> "k"
      [] c = "L" -> "l"
      [] c = "M" -> "m"
      [] c = "N" -> "n"
      [] c = "O" -> "o"
      [] c = "P" -> "p"
      [] c = "Q" -> "q"
      [] c = "R" -> "r"
      [] c = "S" -> "s"
      [] c = "T" -> "t"
      [] c = "U" -> "u"
      [] c = "V" -> "v"
      [] c = "W" -> "w"
      [] c = "X" -> "x"
      [] c = "Y" -> "y"
      [] c = "Z" -> "z"
      [] OTHER -> c

StrLower(text) == [i \in 1..Len(text) |-> LowerChar(text[i])]

\* `kw in text`, compared as whole words
Contains_WholeWord(text, kw) ==
    \E i \in 1..(Len(text) - Len(kw) + 1) :
        /\ SubSeq(text, i, i + Len(kw) - 1) = kw
        /\ (i = 1 \/ text[i - 1] = " ")
        /\ (i + Len(kw) > Len(text) \/ text[i + Len(kw)] = " ")

\* `kw in text`
Contains(text, kw) ==
    \E i \in 1..(Len(text) - Len(kw) + 1) : SubSeq(text, i, i + Len(kw) - 1) = kw

\* any(kw in text for kw in keywords)
AnyIn(keywords, text) == \E kw \in keywords : Contains(text, Spell(kw))

\* CATEGORY_KEYWORDS, in the order of the dict, a few keywords of each list
CATEGORY_KEYWORDS ==
    << [cat |-> "Arts & Crafts",     keywords |-> {"art", "pottery"}],
       [cat |-> "Food & Markets",    keywords |-> {"food", "cooking"}],
       [cat |-> "Theater & Film",    keywords |-> {"film", "drama"}],
       [cat |-> "Comedy",            keywords |-> {"comedy", "improv"}],
       [cat |-> "Coffee & Chai",     keywords |-> {"chai", "tea"}],
       [cat |-> "Sports & Outdoors", keywords |-> {"yoga", "run"}],
       [cat |-> "Music & Dance",     keywords |-> {"music", "bhangra"}],
       [cat |-> "Talks & Lectures",  keywords |-> {"talk", "ama"}],
       [cat |-> "Cultural Festival", keywords |-> {"festival", "holi", "diwali"}],
       [cat |-> "Religious",         keywords |-> {"prayer", "mosque"}],
       [cat |-> "Career & Tech",     keywords |-> {"tech", "ai"}],
       [cat |-> "Community",         keywords |-> {"community", "social"}] >>

\* `cat not in categories`
InList(categories, cat) == \E i \in 1..Len(categories) : categories[i] = cat

\* `for cat, keywords in CATEGORY_KEYWORDS.items(): ...` from entry k on
RECURSIVE AddCategoryLabels(_, _, _)
AddCategoryLabels(categories, k, text) ==
    IF k > Len(CATEGORY_KEYWORDS) THEN categories
    ELSE LET entry == CATEGORY_KEYWORDS[k]
         IN  AddCategoryLabels(
                 IF AnyIn(entry.keywords, text) /\ ~InList(categories, entry.cat)
                 THEN Append(categories, entry.cat) ELSE categories,
                 k + 1, text)

\* the two `if any(kw in text ...)` tests on the community keyword lists
CommunityLabels(text) ==
    (IF AnyIn(SOUTH_ASIAN_KEYWORDS, text) THEN <<"South Asian">> ELSE <<>>)
    \o (IF AnyIn(MIDDLE_EASTERN_KEYWORDS, text) THEN <<"Middle Eastern">> ELSE <<>>)

\* the default is dropped: the list is returned as it is
OrDefault_None(categories, default) == categories

\* `return categories if categories else ["Community"]`
OrDefault(categories, default) ==
    IF categories = <<>> THEN <<default>> ELSE categories

\* the body shared by the categorizers that start from an empty list
CategorizeText(text) ==
    OrDefault(AddCategoryLabels(CommunityLabels(text), 1, text), "Community")

\* f"{name} {description or ''}"
NameAnd(name, extra) == CharsOf(name) \o <<" ">> \o CharsOf(extra)

\* BostonCalendarScraper._categorize; the _categorize of Eventbrite, Meetup,
\* University Events, Google Events, Facebook Events and Brown Paper
\* Tickets have the same body
BostonCategorize(name, description) ==
    CategorizeText(StrLower(NameAnd(name, description)))

\* AllEventsScraper._categorize
AllEventsCategorize(name) == CategorizeText(StrLower(CharsOf(name)))

\* TicketmasterScraper._categorize
TicketmasterCategorize(name, search_term) ==
    LET text == StrLower(NameAnd(name, search_term))
    IN  OrDefault(AddCategoryLabels(CommunityLabels(text), 1, text),
                  "Music & Dance")

\* SulekhaScraper._categorize
SulekhaCategorize(name) ==
    AddCategoryLabels(<<"South Asian">>, 1, StrLower(CharsOf(name)))

\* ISBCCScraper._categorize, a few keywords of each of its lists
ISBCCCategorize(name, description) ==
    LET text == StrLower(NameAnd(name, description))
        If(keywords, cat) == IF AnyIn(keywords, text) THEN <<cat>> ELSE <<>>
    IN  <<"Middle Eastern">>
        \o If({"eid", "iftar", "prayer"}, "Religious")
        \o If({"festival"}, "Cultural Festival")
        \o If({"food", "cooking", "iftar"}, "Food & Markets")
        \o If({"talk", "lecture"}, "Talks & Lectures")
        \o If({"family"}, "Community")
        \o If({"class", "arabic"}, "Talks & Lectures")

\* BandsintownScraper._categorize
BandsintownCategorize(artist_name) ==
    LET text == StrLower(CharsOf(artist_name))
        categories == IF AnyIn({"das"}, text) THEN <<"Comedy">>
                      ELSE <<"Music & Dance">>
    IN  IF AnyIn(SOUTH_ASIAN_KEYWORDS, text)
        THEN Append(categories, "South Asian")
        ELSE IF AnyIn({"arabic"}, text)
             THEN Append(categories, "Middle Eastern")
             ELSE Append(categories, "South Asian")

\* DiceScraper._categorize
DiceCategorize(name) ==
    <<"Music & Dance">> \o CommunityLabels(StrLower(CharsOf(name)))

\* the scrapers whose _categorize takes a name and a second text and has
\* the body of BostonCalendarScraper's
NameAndAdapters == {"Boston Calendar", "Eventbrite", "Meetup"}

\* the scrapers whose _categorize takes a name and a second text
TwoArgAdapters == NameAndAdapters \cup {"Ticketmaster", "ISBCC"}

CatAdapters ==
    TwoArgAdapters \cup {"AllEvents", "Sulekha", "Bandsintown", "Dice"}

\* names of events, and the description, search term or context given with
\* them
CatNames ==
    { <<"Holi", "party">>, <<"chai", "social">>, <<"trivia", "night">>,
      <<"drama", "class">>, <<"yoga">>, <<"iftar", "talk">>, <<"Das">>,
      <<"boston">> }

CatExtras == { <<>>, <<"indian">>, <<"comedy">>, <<"boston">> }

\* the arguments of the next call of a scraper
CatArguments ==
    /\ cat_adapter' = cat_adapter
    /\ cat_name' \in CatNames
    /\ cat_extra' \in IF cat_adapter \in TwoArgAdapters THEN CatExtras ELSE {None}

CatInit ==
    /\ now \in {At(D2, 600)}
    /\ store = <<>>
    /\ GwIdle
    /\ NzIdle
    /\ MnIdle
    /\ SbIdle
    /\ GcIdle
    /\ CuIdle
    /\ WxIdle
    /\ cat_pc = "ready"
    /\ cat_adapter \in CatAdapters
    /\ cat_name \in CatNames
    /\ cat_extra \in IF cat_adapter \in TwoArgAdapters THEN CatExtras ELSE {None}
    /\ cat_result = <<>>
    /\ cat_prev = NoCall

\* the call returns
CatReturns(categories) ==
    /\ cat_pc = "ready"
    /\ cat_result' = categories
    /\ cat_pc' = "applied"
    /\ UNCHANGED <<cat_adapter, cat_name, cat_extra, cat_prev>>
    /\ UNCHANGED nonCt

CallBostonCategorize ==
    /\ cat_adapter \in NameAndAdapters
    /\ CatReturns(BostonCategorize(cat_name, cat_extra))

CallAllEventsCategorize ==
    /\ cat_adapter = "AllEvents"
    /\ CatReturns(AllEventsCategorize(cat_name))

CallTicketmasterCategorize ==
    /\ cat_adapter = "Ticketmaster"
    /\ CatReturns(TicketmasterCategorize(cat_name, cat_extra))

CallSulekhaCategorize ==
    /\ cat_adapter = "Sulekha"
    /\ CatReturns(SulekhaCategorize(cat_name))

CallISBCCCategorize ==
    /\ cat_adapter = "ISBCC"
    /\ CatReturns(ISBCCCategorize(cat_name, cat_extra))

CallBandsintownCategorize ==
    /\ cat_adapter = "Bandsintown"
    /\ CatReturns(BandsintownCategorize(cat_name))

CallDiceCategorize ==
    /\ cat_adapter = "Dice"
    /\ CatReturns(DiceCategorize(cat_name))

\* the scraper goes on to its next event: one more call, with any name and
\* text
CatNextCall ==
    /\ cat_pc = "applied"
    /\ cat_prev = NoCall
    /\ cat_prev' = [adapter |-> cat_adapter, name |-> cat_name,
                    extra |-> cat_extra, result |-> cat_result]
    /\ CatArguments
    /\ cat_result' = <<>>
    /\ cat_pc' = "ready"
    /\ UNCHANGED nonCt

NextCat ==
    \/ CallBostonCategorize
    \/ CallAllEventsCategorize
    \/ CallTicketmasterCategorize
    \/ CallSulekhaCategorize
    \/ CallISBCCCategorize
    \/ CallBandsintownCategorize
    \/ CallDiceCategorize
    \/ CatNextCall

SpecCat == CatInit /\ [][NextCat]_vars

-----------------------------------------------------------------------------
(* The geocoder: geocode_events.py                                          *)
(*                                                                          *)
(* A coordinate is a number of ten-thousandths of a degree; a latitude or   *)
(* longitude of an event is None or <<n>>.  A text of events.json is a      *)
(* record: the key may be missing, and the text may be empty.               *)

Missing == [present |-> FALSE, words |-> <<>>]
Text(words) == [present |-> TRUE, words |-> words]

\* `not text`: a missing key, null and "" are all false
Falsy(text) == ~text.present \/ text.words = <<>>

\* `lat` as a condition: None and 0.0 are both false
Truthy(x) == x # None /\ x[1] # 0

\* KNOWN_VENUES, in the order of the dict, a few of its entries
KNOWN_VENUES ==
    << [venue |-> "boston",       coords |-> <<423601, -710589>>],
       [venue |-> "cambridge",    coords |-> <<423736, -711097>>],
       [venue |-> "mit",          coords |-> <<423601, -710942>>],
       [venue |-> "harvard",      coords |-> <<423770, -711167>>],
       [venue |-> "faneuil hall", coords |-> <<423601, -710549>>],
       [venue |-> "isbcc",        coords |-> <<423307, -710834>>] >>

\* `return 42.3601, -71.0589`
BostonCenter == <<423601, -710589>>

\* `return coords` / `return float(...), float(...)`
Pair(coords) == << <<coords[1]>>, <<coords[2]>> >>

\* `return None, None`
NoPair == <<None, None>>

\* the entries of the table whose key is in the lowercase location
VenueHits(location) ==
    {k \in 1..Len(KNOWN_VENUES) :
         Contains(StrLower(CharsOf(location)), Spell(KNOWN_VENUES[k].venue))}

\* the loop over the table returns at the last entry that matches
FirstHit_Last(hits) == CHOOSE k \in hits : \A j \in hits : j <= k

\* `for venue, coords in KNOWN_VENUES.items(): if venue in ...: return`
FirstHit(hits) == CHOOSE k \in hits : \A j \in hits : k <= j

\* what the request to Nominatim can come to: an exception (connection,
\* timeout, a body that is not JSON, a result without "lat"), an empty list, or
\* a first result with the coordinates it gives
GeocoderOutcomes ==
    { [kind |-> "fails",   coords |-> <<0, 0>>],
      [kind |-> "nothing", coords |-> <<0, 0>>],
      [kind |-> "result",  coords |-> <<426334, -713162>>],
      [kind |-> "result",  coords |-> <<0, -713162>>],
      [kind |-> "result",  coords |-> <<426334, 0>>] }

\* geocode_location, up to the request: the pair it returns without one,
\* <<>> when it goes on to the request
GeocodeLocal(location) ==
    IF location = <<>> THEN NoPair
    ELSE IF VenueHits(location) # {}
         THEN Pair(KNOWN_VENUES[FirstHit(VenueHits(location))].coords)
         ELSE <<>>

\* geocode_location, from the answer of the request on
GeocodeRemote(outcome) ==
    IF outcome.kind = "result" THEN Pair(outcome.coords) ELSE Pair(BostonCenter)

\* `event.get("location") or event.get("address") or "Boston"`
LocationOf(e) ==
    IF ~Falsy(e.location) THEN e.location.words
    ELSE IF ~Falsy(e.address) THEN e.address.words
    ELSE <<"Boston">>

\* `if not event.get("latitude") or not event.get("longitude")`
NeedsCoords(e) == ~Truthy(e.latitude) \/ ~Truthy(e.longitude)

\* the address is set along with the coordinates
WithCoords_AndAddress(e, pair) ==
    IF Truthy(pair[1]) /\ Truthy(pair[2])
    THEN [e EXCEPT !.latitude = pair[1], !.longitude = pair[2],
                   !.address = Text(<<"Boston">>)]
    ELSE e

\* `if lat and lng: event["latitude"] = lat; event["longitude"] = lng`
WithCoords(e, pair) ==
    IF Truthy(pair[1]) /\ Truthy(pair[2])
    THEN [e EXCEPT !.latitude = pair[1], !.longitude = pair[2]]
    ELSE e

\* the sleep is left out
Slept_Skipped(trace) == trace

\* `time.sleep(1)`
Slept(trace) == Append(trace, "pause")

\* the events of events.json, as export_events.py writes them: with both
\* coordinates or with neither
GeoEvent(url, name, location, address, pair) ==
    [url |-> url, name |-> name, date |-> "2026-02-02",
     location |-> location, address |-> address,
     latitude |-> pair[1], longitude |-> pair[2]]

GeoPool ==
    { GeoEvent("/e/1", <<"trivia", "night">>, Missing, Missing, NoPair),
      GeoEvent("/e/2", <<"chai", "social">>, Text(<<>>), Text(<<"Lowell">>), NoPair),
      GeoEvent("/e/3", <<"Holi", "party">>, Text(<<"Faneuil", "Hall">>), Missing,
               NoPair),
      GeoEvent("/e/4", <<"iftar", "talk">>, Text(<<"Faneuil", "Hall", "Boston">>),
               Missing, NoPair),
      GeoEvent("/e/5", <<"yoga">>, Text(<<"Smith", "Hall">>), Text(<<"Cambridge">>),
               NoPair),
      GeoEvent("/e/6", <<"drama", "class">>, Text(<<"Lowell">>), Missing, NoPair),
      GeoEvent("/e/7", <<"garba", "night">>, Text(<<"Lowell">>), Missing,
               Pair(<<426334, -713162>>)),
      GeoEvent("/e/8", <<"music", "night">>, Text(<<"Faneuil", "Hall">>), Missing,
               Pair(<<423601, -710549>>)) }

GeoCatalogs == UNION {[1..n -> GeoPool] : n \in 1..MaxCatalog}

GeoInit ==
    /\ now \in {At(D2, 600)}
    /\ store = <<>>
    /\ GwIdle
    /\ NzIdle
    /\ MnIdle
    /\ SbIdle
    /\ CtIdle
    /\ CuIdle
    /\ WxIdle
    /\ geo_pc = "loop"
    /\ geo_events \in GeoCatalogs
    /\ geo_i = 1
    /\ geo_loc = <<>>
    /\ geo_coords = <<>>
    /\ geo_ext = FALSE
    /\ geo_trace = <<>>
    /\ geo_inflight = 0
    /\ geo_pass = 1
    /\ geo_first = <<>>
    /\ geo_file = [events |-> geo_events, updated |-> "2026-02-01T10:00:00"]

\* the event the loop is at
GeoAtEvent == geo_pc = "loop" /\ geo_i <= Len(geo_events)

\* the event has both coordinates: nothing is done for it
GeoSkip ==
    /\ GeoAtEvent
    /\ ~NeedsCoords(geo_events[geo_i])
    /\ geo_i' = geo_i + 1
    /\ UNCHANGED <<geo_pc, geo_events, geo_loc, geo_coords, geo_ext, geo_trace,
                   geo_inflight, geo_pass, geo_first, geo_file>>
    /\ UNCHANGED nonGc

\* geocode_location returns from the table, the coordinates are stored
GeoKnownVenue ==
    /\ GeoAtEvent
    /\ NeedsCoords(geo_events[geo_i])
    /\ LET location == LocationOf(geo_events[geo_i])
           pair == GeocodeLocal(location)
       IN  /\ pair # <<>>
           /\ geo_loc' = location
           /\ geo_coords' = pair
           /\ geo_events' = [geo_events EXCEPT
                                 ![geo_i] = WithCoords(geo_events[geo_i], pair)]
    /\ geo_ext' = FALSE
    /\ geo_pc' = "sleep"
    /\ UNCHANGED <<geo_i, geo_trace, geo_inflight, geo_pass, geo_first, geo_file>>
    /\ UNCHANGED nonGc

\* geocode_location finds nothing in the table and sends the request
GeoRequest ==
    /\ GeoAtEvent
    /\ NeedsCoords(geo_events[geo_i])
    /\ LET location == LocationOf(geo_events[geo_i])
       IN  /\ GeocodeLocal(location) = <<>>
           /\ geo_loc' = location
    /\ geo_coords' = <<>>
    /\ geo_ext' = TRUE
    /\ geo_trace' = Append(geo_trace, "request")
    /\ geo_inflight' = geo_inflight + 1
    /\ geo_pc' = "calling"
    /\ UNCHANGED <<geo_events, geo_i, geo_pass, geo_first, geo_file>>
    /\ UNCHANGED nonGc

\* the request is answered or fails; geocode_location returns and the
\* coordinates are stored if both are true
GeoAnswer ==
    /\ geo_pc = "calling"
    /\ \E outcome \in GeocoderOutcomes :
           LET pair == GeocodeRemote(outcome)
           IN  /\ geo_coords' = pair
               /\ geo_events' = [geo_events EXCEPT
                                     ![geo_i] = WithCoords(geo_events[geo_i], pair)]
    /\ geo_inflight' = geo_inflight - 1
    /\ geo_pc' = "sleep"
    /\ UNCHANGED <<geo_i, geo_loc, geo_ext, geo_trace, geo_pass, geo_first, geo_file>>
    /\ UNCHANGED nonGc

\* the pause that ends the body of the `if`
GeoSleep ==
    /\ geo_pc = "sleep"
    /\ geo_trace' = Slept(geo_trace)
    /\ geo_i' = geo_i + 1
    /\ geo_pc' = "loop"
    /\ UNCHANGED <<geo_events, geo_loc, geo_coords, geo_ext, geo_inflight,
                   geo_pass, geo_first, geo_file>>
    /\ UNCHANGED nonGc

\* the loop is over: `json.dump(data, f, indent=2)` writes events.json,
\* `data` being what json.load returned with its events changed in place
GeoSave ==
    /\ geo_pc = "loop"
    /\ geo_i > Len(geo_events)
    /\ geo_file' = [geo_file EXCEPT !.events = geo_events]
    /\ geo_pc' = "done"
    /\ UNCHANGED <<geo_events, geo_i, geo_loc, geo_coords, geo_ext, geo_trace,
                   geo_inflight, geo_pass, geo_first>>
    /\ UNCHANGED nonGc

\* the script is run once more on the file it wrote
GeoRunAgain ==
    /\ geo_pc = "done"
    /\ geo_pass = 1
    /\ geo_first' = geo_events
    /\ geo_pass' = 2
    /\ geo_i' = 1
    /\ geo_trace' = <<>>
    /\ geo_loc' = <<>>
    /\ geo_coords' = <<>>
    /\ geo_ext' = FALSE
    /\ geo_pc' = "loop"
    /\ geo_events' = geo_file.events
    /\ UNCHANGED <<geo_inflight, geo_file>>
    /\ UNCHANGED nonGc

NextGeo ==
    \/ GeoSkip
    \/ GeoKnownVenue
    \/ GeoRequest
    \/ GeoAnswer
    \/ GeoSleep
    \/ GeoSave
    \/ GeoRunAgain

SpecGeo == GeoInit /\ [][NextGeo]_vars

-----------------------------------------------------------------------------
(* The curator: load_events of send_imessage.py and get_upcoming_events of  *)
(* send_weekly_email.py                                                     *)
(*                                                                          *)
(* The "date" of an event of events.json is a record: kind "date" is the    *)
(* text "YYYY-MM-DD" that notion_db.py writes, "datetime" a start with a    *)
(* time of day after the date, "null" the JSON null, "missing" no key.      *)

DateText(d) == [kind |-> "date", y |-> d[1], m |-> d[2], d |-> d[3]]
DateTimeText(d) == [kind |-> "datetime", y |-> d[1], m |-> d[2], d |-> d[3]]
NullDate == [kind |-> "null", y |-> 0, m |-> 0, d |-> 0]
MissingDate == [kind |-> "missing", y |-> 0, m |-> 0, d |-> 0]

\* datetime.strptime(e["date"], "%Y-%m-%d") returns
ParsesAsDate(date) ==
    /\ date.kind = "date"
    /\ date.m \in 1..12
    /\ date.d \in 1..DaysInMonth(date.y, date.m)

\* datetime.strptime(e["date"], "%Y-%m-%d") raises TypeError
RaisesTypeError(date) == date.kind = "null"

\* datetime.strptime(e["date"], "%Y-%m-%d").date()
EventDate(date) == <<date.y, date.m, date.d>>

\* date + timedelta(days=n)
RECURSIVE PlusDays(_, _)
PlusDays(d, n) ==
    IF n = 0 THEN d
    ELSE IF d[3] < DaysInMonth(d[1], d[2]) THEN PlusDays(<<d[1], d[2], d[3] + 1>>, n - 1)
    ELSE IF d[2] < 12 THEN PlusDays(<<d[1], d[2] + 1, 1>>, n - 1)
    ELSE PlusDays(<<d[1] + 1, 1, 1>>, n - 1)

\* the window has no upper end
InWindow_NoEnd(date, day, days) == DateGE(EventDate(date), day)

\* `today <= event_date <= end_date`
InWindow(date, day, days) ==
    /\ DateGE(EventDate(date), day)
    /\ DateGE(PlusDays(day, days), EventDate(date))

\* e["date"] < f["date"], two texts "YYYY-MM-DD" compared as strings: with
\* four, two and two digits the order of the texts is the order of the
\* numbers
DateStrLT(a, b) == DateLT(<<a.y, a.m, a.d>>, <<b.y, b.m, b.d>>)

INDOOR_CATEGORIES ==
    {"Arts & Crafts", "Theater & Film", "Food & Markets", "Comedy",
     "Coffee & Chai", "Talks & Lectures", "Career & Tech", "Religious"}

OUTDOOR_CATEGORIES == {"Sports & Outdoors", "Cultural Festival"}

\* a few of the hints of is_indoor_event
IndoorHints == {"museum", "hall", "bar", "club"}
OutdoorHints == {"park", "run", "walk"}

\* the loop of is_indoor_event over the categories: "indoor", "outdoor", or
\* "" when it ends without a return
RECURSIVE ByCategory(_)
ByCategory(categories) ==
    IF categories = <<>> THEN ""
    ELSE IF Head(categories) \in INDOOR_CATEGORIES THEN "indoor"
    ELSE IF Head(categories) \in OUTDOOR_CATEGORIES THEN "outdoor"
    ELSE ByCategory(Tail(categories))

\* is_indoor_event with the indoor hints looked at first
IsIndoorEvent_IndoorHintsFirst(e) ==
    LET text == StrLower(CharsOf(e.name)) \o <<" ">> \o StrLower(CharsOf(e.location))
    IN  IF ByCategory(e.categories) # "" THEN ByCategory(e.categories) = "indoor"
        ELSE IF AnyIn(IndoorHints, text) THEN TRUE
        ELSE IF AnyIn(OutdoorHints, text) THEN FALSE
        ELSE TRUE

\* is_indoor_event
IsIndoorEvent(e) ==
    LET text == StrLower(CharsOf(e.name)) \o <<" ">> \o StrLower(CharsOf(e.location))
    IN  IF ByCategory(e.categories) # "" THEN ByCategory(e.categories) = "indoor"
        ELSE IF AnyIn(OutdoorHints, text) THEN FALSE
        ELSE IF AnyIn(IndoorHints, text) THEN TRUE
        ELSE TRUE

\* an event of events.json; is_indoor is the key load_events adds, and
\* e.get("is_indoor", True) of an event without it
CurEvent(id, name, date, time, location, price, categories) ==
    [id |-> id, name |-> name, date |-> date, time |-> time,
     location |-> location, price |-> price, categories |-> categories,
     is_indoor |-> TRUE]

\* a few of the words of `junk` and `not_events`
JunkWords == {"cookie", "privacy"}
NotEventWords == {"restaurant"}

\* `if not name or any(j in name.lower() ...)` and the test on not_events
IsJunk(e) ==
    \/ e.name = <<>>
    \/ AnyIn(JunkWords, StrLower(CharsOf(e.name)))
    \/ AnyIn(NotEventWords, StrLower(CharsOf(e.name)))

\* the body of the for loop of load_events: the event joins good_events or
\* not
IsGoodEvent(e, day) ==
    /\ ~IsJunk(e)
    /\ ParsesAsDate(e.date)
    /\ InWindow(e.date, day, 7)

\* the for loop of load_events
RECURSIVE GoodEvents(_, _)
GoodEvents(events, day) ==
    IF events = <<>> THEN <<>>
    ELSE (IF IsGoodEvent(Head(events), day)
          THEN << [Head(events) EXCEPT !.is_indoor = IsIndoorEvent(Head(events))] >>
          ELSE <<>>)
         \o GoodEvents(Tail(events), day)

\* `weather_condition in ["snow", "rainy", "heat", "freezing", "mixed"]`
PreferIndoor(weather_condition) ==
    weather_condition \in {"snow", "rainy", "heat", "freezing", "mixed"}

\* score_event without the points for the weather
ScoreEvent_NoBias(e, prefer_indoor) ==
    LET cats == Range(e.categories)
    IN  (IF "South Asian" \in cats THEN 100 ELSE 0)
        + (IF "Middle Eastern" \in cats THEN 100 ELSE 0)
        + (IF "Cultural Festival" \in cats THEN 50 ELSE 0)
        + (IF "Music & Dance" \in cats THEN 40 ELSE 0)
        + (IF "Food & Markets" \in cats THEN 40 ELSE 0)
        + (IF Contains(StrLower(CharsOf(e.price)), Spell("free")) THEN 30 ELSE 0)
        + (IF e.time # "" THEN 10 ELSE 0)

\* score_event
ScoreEvent(e, prefer_indoor) ==
    LET cats == Range(e.categories)
    IN  (IF "South Asian" \in cats THEN 100 ELSE 0)
        + (IF "Middle Eastern" \in cats THEN 100 ELSE 0)
        + (IF "Cultural Festival" \in cats THEN 50 ELSE 0)
        + (IF "Music & Dance" \in cats THEN 40 ELSE 0)
        + (IF "Food & Markets" \in cats THEN 40 ELSE 0)
        + (IF Contains(StrLower(CharsOf(e.price)), Spell("free")) THEN 30 ELSE 0)
        + (IF prefer_indoor = e.is_indoor THEN 20 ELSE 0)
        + (IF e.time # "" THEN 10 ELSE 0)

\* the key without the date
KeyLT_ScoreOnly(a, b, prefer_indoor) ==
    ScoreEvent(a, prefer_indoor) > ScoreEvent(b, prefer_indoor)

\* (-score_event(a), a["date"]) < (-score_event(b), b["date"])
KeyLT(a, b, prefer_indoor) ==
    \/ ScoreEvent(a, prefer_indoor) > ScoreEvent(b, prefer_indoor)
    \/ /\ ScoreEvent(a, prefer_indoor) = ScoreEvent(b, prefer_indoor)
       /\ DateStrLT(a.date, b.date)

\* list.sort is stable: e goes before the first entry with a larger key
InsertByKey(sorted, e, prefer_indoor) ==
    LET later == {i \in 1..Len(sorted) : KeyLT(e, sorted[i], prefer_indoor)}
        at == IF later = {} THEN Len(sorted) + 1
              ELSE CHOOSE i \in later : \A j \in later : i <= j
    IN  SubSeq(sorted, 1, at - 1) \o <<e>> \o SubSeq(sorted, at, Len(sorted))

\* good_events.sort(key=lambda e: (-score_event(e), e["date"]))
RECURSIVE SortByScore(_, _, _)
SortByScore(sorted, rest, prefer_indoor) ==
    IF rest = <<>> THEN sorted
    ELSE SortByScore(InsertByKey(sorted, Head(rest), prefer_indoor),
                     Tail(rest), prefer_indoor)

\* str.strip() on characters
RECURSIVE StripChars(_)
StripChars(text) ==
    IF text # <<>> /\ Head(text) = " " THEN StripChars(Tail(text))
    ELSE IF text # <<>> /\ text[Len(text)] = " "
         THEN StripChars(SubSeq(text, 1, Len(text) - 1))
         ELSE text

\* the names are compared as they are written
DedupName_Verbatim(e) == CharsOf(e.name)

\* e["name"].lower().strip()
DedupName(e) == StripChars(StrLower(CharsOf(e.name)))

\* the loop over good_events with seen_names
RECURSIVE UniqueEvents(_, _)
UniqueEvents(events, seen_names) ==
    IF events = <<>> THEN <<>>
    ELSE IF DedupName(Head(events)) \in seen_names
         THEN UniqueEvents(Tail(events), seen_names)
         ELSE <<Head(events)>>
              \o UniqueEvents(Tail(events), seen_names \cup {DedupName(Head(events))})

\* unique_events[:7]
FirstSeven(events) == SubSeq(events, 1, Min(7, Len(events)))

\* load_events(weather_condition)
LoadEvents(events, weather_condition, day) ==
    FirstSeven(UniqueEvents(
        SortByScore(<<>>, GoodEvents(events, day), PreferIndoor(weather_condition)),
        {}))

\* the for loop of get_upcoming_events, for events whose date is no null
RECURSIVE Upcoming(_, _)
Upcoming(events, day) ==
    IF events = <<>> THEN <<>>
    ELSE (IF ParsesAsDate(Head(events).date) /\ InWindow(Head(events).date, day, 7)
          THEN <<Head(events)>> ELSE <<>>)
         \o Upcoming(Tail(events), day)

\* upcoming.sort(key=lambda e: e["date"]): e goes before the first entry
\* with a later date
InsertByDate(sorted, e) ==
    LET later == {i \in 1..Len(sorted) : DateStrLT(e.date, sorted[i].date)}
        at == IF later = {} THEN Len(sorted) + 1
              ELSE CHOOSE i \in later : \A j \in later : i <= j
    IN  SubSeq(sorted, 1, at - 1) \o <<e>> \o SubSeq(sorted, at, Len(sorted))

RECURSIVE SortByDate(_, _)
SortByDate(sorted, rest) ==
    IF rest = <<>> THEN sorted
    ELSE SortByDate(InsertByDate(sorted, Head(rest)), Tail(rest))

\* get_upcoming_events(events), days=7
GetUpcomingEvents(events, day) == SortByDate(<<>>, Upcoming(events, day))

\* the events the catalogs of the model are made of
CurPool ==
    << CurEvent(1, <<"Holi", "party">>, DateText(<<2026, 2, 1>>), "7:00 PM",
                <<"Smith", "Hall">>, <<"Free">>,
                <<"South Asian", "Cultural Festival">>),
       CurEvent(2, <<"", "holi", "Party", "">>, DateText(<<2026, 2, 3>>), "",
                <<"Cambridge">>, <<>>, <<"Community">>),
       CurEvent(3, <<"chai", "social">>, DateText(<<2026, 2, 2>>), "",
                <<"Cambridge">>, <<>>, <<"South Asian", "Coffee & Chai">>),
       CurEvent(4, <<"iftar", "talk">>, DateText(<<2026, 2, 4>>), "6:00 PM",
                <<"Boston">>, <<"Free">>,
                <<"Middle Eastern", "Talks & Lectures">>),
       CurEvent(5, <<"trivia", "night">>, DateText(<<2026, 2, 4>>), "7:00 PM",
                <<"Cambridge">>, <<"$10">>, <<"Community">>),
       CurEvent(6, <<"yoga">>, DateText(<<2026, 2, 1>>), "",
                <<"Boston">>, <<"Free">>, <<"Sports & Outdoors">>),
       CurEvent(7, <<"drama", "class">>, DateText(<<2026, 2, 3>>), "7:00 PM",
                <<"Boston">>, <<>>, <<"Theater & Film">>),
       CurEvent(8, <<"boston", "run">>, DateText(<<2026, 2, 2>>), "",
                <<"Boston">>, <<>>, <<>>),
       CurEvent(9, <<"Das">>, DateText(<<2026, 2, 3>>), "7:00 PM",
                <<"Boston">>, <<>>, <<"Comedy">>),
       CurEvent(10, <<"Cookie", "policy">>, DateText(<<2026, 2, 2>>), "",
                <<>>, <<>>, <<"Community">>),
       CurEvent(11, <<"garba", "night">>, DateText(<<2026, 2, 9>>), "8:00 PM",
                <<"Boston">>, <<>>, <<"South Asian", "Music & Dance">>),
       CurEvent(12, <<"nowruz", "festival">>, DateTimeText(<<2026, 2, 2>>), "",
                <<"Boston">>, <<>>, <<"Middle Eastern", "Cultural Festival">>),
       CurEvent(13, <<"diwali", "food">>, DateText(<<2026, 1, 28>>), "",
                <<"Lowell">>, <<>>, <<"South Asian", "Food & Markets">>),
       CurEvent(14, <<"pottery", "art">>, DateText(<<2026, 2, 8>>), "",
                <<"Cambridge">>, <<>>, <<"Arts & Crafts">>),
       CurEvent(15, <<"music", "night">>, NullDate, "",
                <<"Boston">>, <<>>, <<"Music & Dance">>),
       CurEvent(16, <<"tech", "talk">>, MissingDate, "",
                <<"Boston">>, <<>>, <<"Career & Tech">>),
       CurEvent(17, <<"garba", "night">>, DateText(<<2026, 1, 27>>), "",
                <<"Boston">>, <<>>, <<"South Asian", "Music & Dance">>),
       CurEvent(18, <<"food", "festival">>, DateText(<<2026, 2, 5>>), "",
                <<"Boston">>, <<>>, <<"Cultural Festival", "Food & Markets">>),
       CurEvent(19, <<"Museum", "walk">>, DateText(<<2026, 2, 6>>), "",
                <<"Cambridge">>, <<>>, <<"Community">>) >>

\* list(reversed(events))
Reversed(events) == [i \in 1..Len(events) |-> events[Len(events) + 1 - i]]

\* the catalogs: a stretch of the pool, from the front or from the back
CurCatalogs ==
    {SubSeq(order, a, b) :
         a \in 1..Len(CurPool), b \in 1..Len(CurPool),
         order \in {CurPool, Reversed(CurPool)}} \ {<<>>}

\* the days the scripts are run on
CurDays == {<<2026, 2, 1>>, <<2026, 1, 28>>}

CurInit ==
    /\ now \in {At(d, 600) : d \in CurDays}
    /\ store = <<>>
    /\ GwIdle
    /\ NzIdle
    /\ MnIdle
    /\ SbIdle
    /\ CtIdle
    /\ GcIdle
    /\ WxIdle
    /\ cur_pc = "ready"
    /\ cur_fn = ""
    /\ cur_events \in CurCatalogs
    /\ cur_weather \in {"snow", "nice"}
    /\ cur_result = <<>>

\* send_imessage.load_events(weather_condition)
CallLoadEvents ==
    /\ cur_pc = "ready"
    /\ cur_fn' = "load_events"
    /\ cur_result' = LoadEvents(cur_events, cur_weather, DateOf(now))
    /\ cur_pc' = "returned"
    /\ UNCHANGED <<cur_events, cur_weather>>
    /\ UNCHANGED nonCu

\* send_weekly_email.get_upcoming_events(events)
CallGetUpcomingEvents ==
    /\ cur_pc = "ready"
    /\ \A i \in 1..Len(cur_events) : ~RaisesTypeError(cur_events[i].date)
    /\ cur_fn' = "get_upcoming_events"
    /\ cur_result' = GetUpcomingEvents(cur_events, DateOf(now))
    /\ cur_pc' = "returned"
    /\ UNCHANGED <<cur_events, cur_weather>>
    /\ UNCHANGED nonCu

\* send_weekly_email.get_upcoming_events(events) on a catalog with a null
\* date: the TypeError of strptime is not caught
CallGetUpcomingEventsRaises ==
    /\ cur_pc = "ready"
    /\ \E i \in 1..Len(cur_events) : RaisesTypeError(cur_events[i].date)
    /\ cur_fn' = "get_upcoming_events"
    /\ cur_pc' = "raised"
    /\ UNCHANGED <<cur_events, cur_weather, cur_result>>
    /\ UNCHANGED nonCu

NextCur ==
    \/ CallLoadEvents
    \/ CallGetUpcomingEvents
    \/ CallGetUpcomingEventsRaises

SpecCur == CurInit /\ [][NextCur]_vars

-----------------------------------------------------------------------------
(* The weather of the week: analyze_weather of send_imessage.py             *)
(*                                                                          *)
(* The readings of a forecast are numbers of tenths (of a degree, of a      *)
(* millimetre, of a centimetre), one for each of the seven days; sums of    *)
(* readings are taken as exact.                                             *)

HEAT_THRESHOLD == 35
FREEZING_THRESHOLD == -5
SNOW_THRESHOLD == 2
RAIN_THRESHOLD == 15

\* one unit of a threshold, in readings
Tenths(n) == 10 * n

\* sum(values)
RECURSIVE SumOf(_)
SumOf(values) == IF values = <<>> THEN 0 ELSE Head(values) + SumOf(Tail(values))

\* the forecast of get_weather_forecast: data.get("daily", {})
Forecast(temps_max, temps_min, rain, snow, codes) ==
    [given |-> TRUE, temperature_2m_max |-> temps_max,
     temperature_2m_min |-> temps_min, precipitation_sum |-> rain,
     snowfall_sum |-> snow, weather_code |-> codes]

\* `sum(1 for s in snow if s > 0)`
SnowDays(snow) == Cardinality({i \in 1..Len(snow) : snow[i] > 0})

\* len(bad_weather_days): the days with a snow code or a rain code
BadWeatherDays(codes) ==
    Cardinality({i \in 1..Len(codes) :
                     \/ codes[i] >= 71 /\ codes[i] <= 77
                     \/ codes[i] >= 51 /\ codes[i] <= 67})

\* `avg_low <= FREEZING_THRESHOLD`, avg_low being 0 without readings
IsFreezing(temps_min) ==
    IF temps_min = <<>> THEN 0 <= FREEZING_THRESHOLD
    ELSE SumOf(temps_min) <= Tenths(FREEZING_THRESHOLD) * Len(temps_min)

\* `avg_high >= HEAT_THRESHOLD`, avg_high being 10 without readings
IsHeat(temps_max) ==
    IF temps_max = <<>> THEN 10 >= HEAT_THRESHOLD
    ELSE SumOf(temps_max) >= Tenths(HEAT_THRESHOLD) * Len(temps_max)

\* the cold is looked at before the snow
Cascade_FreezingFirst(snow, freezing, rainy, heat, mixed) ==
    IF freezing THEN "freezing"
    ELSE IF snow THEN "snow"
    ELSE IF rainy THEN "rainy"
    ELSE IF heat THEN "heat"
    ELSE IF mixed THEN "mixed"
    ELSE "nice"

\* the if / elif chain that sets `condition`
Cascade(snow, freezing, rainy, heat, mixed) ==
    IF snow THEN "snow"
    ELSE IF freezing THEN "freezing"
    ELSE IF rainy THEN "rainy"
    ELSE IF heat THEN "heat"
    ELSE IF mixed THEN "mixed"
    ELSE "nice"

\* analyze_weather without its first test: the defaults of the readings
\* (no rain, no snow, lows of 0, highs of 10) make the week a nice one
AnalyzeWeather_NoGuard(weather_data) ==
    LET total_rain == SumOf(weather_data.precipitation_sum)
        total_snow == SumOf(weather_data.snowfall_sum)
        snow_days == SnowDays(weather_data.snowfall_sum)
    IN  Cascade(total_snow >= Tenths(SNOW_THRESHOLD) \/ snow_days >= 2,
                IsFreezing(weather_data.temperature_2m_min),
                total_rain >= Tenths(RAIN_THRESHOLD),
                IsHeat(weather_data.temperature_2m_max),
                BadWeatherDays(weather_data.weather_code) >= 3)

\* analyze_weather(weather_data)[0]
AnalyzeWeather(weather_data) ==
    IF ~weather_data.given THEN "unknown"
    ELSE LET total_rain == SumOf(weather_data.precipitation_sum)
             total_snow == SumOf(weather_data.snowfall_sum)
             snow_days == SnowDays(weather_data.snowfall_sum)
         IN  Cascade(total_snow >= Tenths(SNOW_THRESHOLD) \/ snow_days >= 2,
                     IsFreezing(weather_data.temperature_2m_min),
                     total_rain >= Tenths(RAIN_THRESHOLD),
                     IsHeat(weather_data.temperature_2m_max),
                     BadWeatherDays(weather_data.weather_code) >= 3)

\* the readings of the forecasts of the model, day by day
WxHighs ==
    { <<350, 350, 350, 350, 350, 350, 350>>,
      <<350, 350, 350, 350, 350, 350, 349>>,
      <<20, 40, 10, -10, 0, 30, 50>> }

WxLows ==
    { <<-50, -50, -50, -50, -50, -50, -50>>,
      <<-50, -50, -50, -50, -50, -50, -49>>,
      <<-120, -80, -60, -90, -100, -70, -110>>,
      <<50, 60, 40, 80, 70, 90, 100>> }

WxRain ==
    { <<0, 0, 0, 0, 0, 0, 0>>,
      <<50, 0, 99, 0, 0, 0, 0>>,
      <<50, 0, 100, 0, 0, 0, 0>> }

WxSnow ==
    { <<0, 0, 0, 0, 0, 0, 0>>,
      <<0, 19, 0, 0, 0, 0, 0>>,
      <<0, 20, 0, 0, 0, 0, 0>>,
      <<0, 5, 0, 0, 5, 0, 0>>,
      <<0, 15, 15, 0, 0, 0, 0>> }

WxCodes ==
    { <<0, 1, 2, 3, 0, 1, 2>>,
      <<61, 0, 71, 0, 0, 0, 3>>,
      <<61, 0, 71, 0, 51, 0, 3>>,
      <<80, 95, 82, 99, 0, 0, 3>> }

WxForecasts ==
    {Forecast(h, l, r, sn, c) :
         h \in WxHighs, l \in WxLows, r \in WxRain, sn \in WxSnow, c \in WxCodes}

WxInit ==
    /\ now \in {At(D2, 600)}
    /\ store = <<>>
    /\ GwIdle
    /\ NzIdle
    /\ MnIdle
    /\ SbIdle
    /\ CtIdle
    /\ GcIdle
    /\ CuIdle
    /\ wx_pc = "ready"
    /\ wx_data \in WxForecasts \cup {NoForecast}
    /\ wx_condition = ""

\* analyze_weather(weather_data)
CallAnalyzeWeather ==
    /\ wx_pc = "ready"
    /\ wx_condition' = AnalyzeWeather(wx_data)
    /\ wx_pc' = "applied"
    /\ UNCHANGED wx_data
    /\ UNCHANGED nonWx

NextWx == CallAnalyzeWeather

SpecWx == WxInit /\ [][NextWx]_vars

-----------------------------------------------------------------------------
(* The events of a subscriber: get_events_for_subscriber of                 *)
(* send_weekly_email.py                                                     *)
(*                                                                          *)
(* A subscriber is the record get_subscribers_from_brevo builds: the lists  *)
(* of the INTERESTS and PRICE_PREF attributes, split at the commas, and the *)
(* LOCATION attribute.  The price of an event may be missing or null.       *)

\* INTEREST_TO_CATEGORY.get(i, [])
INTEREST_TO_CATEGORY(i) ==
    CASE i = "desi" -> <<"South Asian", "Music & Dance">>
      [] i = "arab" -> <<"Middle Eastern">>
      [] i = "arts" -> <<"Arts & Crafts">>
      [] i = "music" -> <<"Music & Dance">>
      [] i = "food" -> <<"Food & Markets">>
      [] i = "cultural" -> <<"Cultural Festival">>
      [] i = "wellness" -> <<"Sports & Outdoors">>
      [] i = "career" -> <<"Career & Tech", "Talks & Lectures">>
      [] OTHER -> <<>>

MAX_EVENTS_PER_EMAIL == 7

\* `for i in interests: interest_cats.extend(INTEREST_TO_CATEGORY.get(i, []))`
RECURSIVE InterestCats(_)
InterestCats(interests) ==
    IF interests = <<>> THEN <<>>
    ELSE INTEREST_TO_CATEGORY(Head(interests)) \o InterestCats(Tail(interests))

\* the interest filter: the event is not skipped
PassesInterest(e, interest_cats) ==
    interest_cats # <<>> =>
        \E k \in 1..Len(interest_cats) : InList(e.categories, interest_cats[k])

\* the location filter: the event is not skipped
PassesLocation(e, location_pref) ==
    (location_pref # <<>> /\ location_pref # <<"all">>) =>
        Contains(StrLower(CharsOf(e.location) \o <<" ">> \o CharsOf(e.address)),
                 StrLower(CharsOf(location_pref)))

\* (event.get("price") or "").lower()
EventPrice(e) == IF Falsy(e.price) THEN <<>> ELSE StrLower(CharsOf(e.price.words))

\* the price filter tests the price as it is written
PassesPrice_Verbatim(e, price_prefs) ==
    LET event_price == IF Falsy(e.price) THEN <<>> ELSE CharsOf(e.price.words)
    IN  price_prefs # <<>> =>
            IF InList(price_prefs, "free") /\ ~InList(price_prefs, "paid")
            THEN Contains(event_price, Spell("free"))
            ELSE IF InList(price_prefs, "paid") /\ ~InList(price_prefs, "free")
            THEN ~(Contains(event_price, Spell("free")) \/ event_price = <<>>)
            ELSE TRUE

\* the price filter: the event is not skipped
PassesPrice(e, price_prefs) ==
    price_prefs # <<>> =>
        IF InList(price_prefs, "free") /\ ~InList(price_prefs, "paid")
        THEN Contains(EventPrice(e), Spell("free"))
        ELSE IF InList(price_prefs, "paid") /\ ~InList(price_prefs, "free")
        THEN ~(Contains(EventPrice(e), Spell("free")) \/ EventPrice(e) = <<>>)
        ELSE TRUE

\* the for loop of get_events_for_subscriber
RECURSIVE MatchedEvents(_, _)
MatchedEvents(events, sub) ==
    IF events = <<>> THEN <<>>
    ELSE (IF /\ PassesInterest(Head(events), InterestCats(sub.interests))
             /\ PassesLocation(Head(events), sub.location)
             /\ PassesPrice(Head(events), sub.price_prefs)
          THEN <<Head(events)>> ELSE <<>>)
         \o MatchedEvents(Tail(events), sub)

\* get_events_for_subscriber(events, subscriber)
GetEventsForSubscriber(events, sub) ==
    LET matched_events == SortByDate(<<>>, MatchedEvents(events, sub))
    IN  SubSeq(matched_events, 1, Min(MAX_EVENTS_PER_EMAIL, Len(matched_events)))

\* an event of the list get_upcoming_events returns
SubEvent(id, date, location, address, price, categories) ==
    [id |-> id, date |-> date, location |-> location, address |-> address,
     price |-> price, categories |-> categories]

\* the events the lists of the model are made of
SubPool ==
    << SubEvent(1, DateText(<<2026, 2, 1>>), <<"Smith", "Hall">>, <<"Cambridge">>,
                Text(<<"Free">>), <<"South Asian", "Cultural Festival">>),
       SubEvent(2, DateText(<<2026, 2, 1>>), <<"Boston">>, <<>>,
                Text(<<"$10">>), <<"Music & Dance">>),
       SubEvent(3, DateText(<<2026, 2, 2>>), <<"Cambridge">>, <<>>,
                Missing, <<"South Asian", "Coffee & Chai">>),
       SubEvent(4, DateText(<<2026, 2, 2>>), <<"Boston">>, <<>>,
                Text(<<>>), <<"Community">>),
       SubEvent(5, DateText(<<2026, 2, 3>>), <<"Boston">>, <<>>,
                Text(<<"FREE-$10">>), <<"Talks & Lectures">>),
       SubEvent(6, DateText(<<2026, 2, 3>>), <<"Lowell">>, <<>>,
                Text(<<"$10">>), <<>>),
       SubEvent(7, DateText(<<2026, 2, 4>>), <<"Boston">>, <<"Boston">>,
                Text(<<"free">>), <<"Food & Markets">>),
       SubEvent(8, DateText(<<2026, 2, 5>>), <<"Cambridge">>, <<>>,
                Text(<<"$10">>), <<"Middle Eastern">>),
       SubEvent(9, DateText(<<2026, 2, 6>>), <<"Boston">>, <<>>,
                Text(<<"Free">>), <<"Comedy">>) >>

\* the lists of events: a stretch of the pool, in the order of the dates
SubCatalogs ==
    {SubSeq(SubPool, a, b) : a \in 1..Len(SubPool), b \in 1..Len(SubPool)} \ {<<>>}

\* the INTERESTS attribute is free text: "comedy" and "Music" are tags the
\* table does not have
SubInterests ==
    { <<>>, <<"music">>, <<"desi">>, <<"career", "food">>, <<"comedy">>,
      <<"Music">>, <<"comedy", "arab">> }

SubLocations == { <<"all">>, <<>>, <<"Cambridge">> }

SubPricePrefs ==
    { <<>>, <<"free">>, <<"paid">>, <<"free", "paid">>, <<"paid", "free">> }

SubInit ==
    /\ now = At(<<2026, 2, 1>>, 600)
    /\ store = <<>>
    /\ GwIdle
    /\ NzIdle
    /\ MnIdle
    /\ CtIdle
    /\ GcIdle
    /\ CuIdle
    /\ WxIdle
    /\ sub_pc = "ready"
    /\ sub_events \in SubCatalogs
    /\ subscriber \in [interests : SubInterests, location : SubLocations,
                       price_prefs : SubPricePrefs]
    /\ sub_result = <<>>

\* get_events_for_subscriber(upcoming, subscriber)
CallGetEventsForSubscriber ==
    /\ sub_pc = "ready"
    /\ sub_result' = GetEventsForSubscriber(sub_events, subscriber)
    /\ sub_pc' = "returned"
    /\ UNCHANGED <<sub_events, subscriber>>
    /\ UNCHANGED nonSb

NextSub == CallGetEventsForSubscriber

SpecSub == SubInit /\ [][NextSub]_vars

-----------------------------------------------------------------------------
(* Properties of the store gateway *)

Live(i) == ~store[i].archived

\* C1: under single-flight execution (one run or several sequential runs,
\* a re-run after an interrupted run included) the store never holds two
\* events with the same url, whatever the urls are (empty urls included).
C1_AtMostOnePerUrl ==
    \A i, j \in 1..Len(store) :
        (i < j /\ Live(i) /\ Live(j)) => store[i].url # store[j].url

\* the iteration of add_events' loop that process r takes in this step
AddStep(r) == pc[r] = "loop" /\ idx'[r] = idx[r] + 1

Rejected(r) ==
    /\ skipped'[r] = skipped[r] + 1
    /\ added'[r] = added[r]
    /\ errors'[r] = errors[r]
    /\ store' = store

\* C2 as stated: within one run, once a candidate with url u has been
\* admitted (whether its create call succeeded or failed), every later
\* candidate with url u is rejected: no create call, skipped + 1.
C2_RepeatOfAdmittedRejected ==
    [][\A r \in Procs :
         (AddStep(r) /\ event'[r].url \in admitted[r]) => Rejected(r)]_vars

\* C2 as amended: within one run, once the create call for a candidate with
\* url u has succeeded, every later candidate with url u is rejected: no
\* create call is made for it and skipped is incremented by exactly one,
\* whichever adapter produced each candidate.
C2_RepeatOfCreatedRejected ==
    [][\A r \in Procs :
         (AddStep(r) /\ event'[r].url \in created[r]) => Rejected(r)]_vars

\* a run that stored an event of one adapter and then skipped the same url
\* coming from another adapter
C2_Witness ==
    \E r \in Procs :
        /\ pc[r] = "loop"
        /\ added[r] = 1 /\ skipped[r] = 1 /\ errors[r] = 0
        /\ event[r].url \in created[r]
        /\ \E i \in 1..Len(store) :
              /\ store[i].url = event[r].url
              /\ store[i].source \notin {event[r].source, "manual"}

\* C3: with overlapping runs nothing but the run's own snapshot (plus the
\* urls it added itself) decides a candidate: a candidate whose url is not
\* in that set is handed to create, whatever the store holds by then; so
\* two runs that both took their snapshot before either created url u can
\* both store it (C3_DoubleInsert is reachable).
C3_SnapshotAloneDecides ==
    [][\A r \in Procs :
         (AddStep(r) /\ event'[r].url \notin existing_urls[r]) =>
            /\ skipped'[r] = skipped[r]
            /\ added'[r] + errors'[r] = added[r] + errors[r] + 1]_vars

\* the store holds two live events with the same non-empty url, both
\* stored by runs that are still in progress
C3_DoubleInsert ==
    \E i, j \in 1..Len(store) :
        /\ i < j /\ Live(i) /\ Live(j)
        /\ store[i].url = store[j].url
        /\ store[i].url # ""
        /\ \A r \in Procs : pc[r] = "loop" /\ store[i].url \in created[r]

\* C4: a create call (add_events) or an archive call (cleanup_past_events)
\* that raises adds one to errors and leaves the loop running; every item
\* visited is counted exactly once, so add_events returns with
\* added + skipped + errors = number of candidates.
C4_CountersAddUp ==
    \A r \in Procs :
        /\ pc[r] \in {"loop", "done"} =>
              added[r] + skipped[r] + errors[r] = idx[r]
        /\ pc[r] \in {"cquery", "centry", "cdone"} =>
              deleted[r] + kept[r] + errors[r] = idx[r]

C4_FailureIsolated ==
    /\ []C4_CountersAddUp
    /\ [][\A r \in Procs :
            (pc[r] \in {"loop", "centry"} /\ idx'[r] = idx[r] + 1) =>
               /\ pc'[r] = pc[r]
               /\ errors'[r] \in {errors[r], errors[r] + 1}
               /\ errors'[r] = errors[r] + 1 => store' = store]_vars

\* add_events has returned after a failed create followed by a successful
\* one, and cleanup_past_events has returned after a failed archive call
\* followed by a successful one
C4_Witness ==
    \E r, q \in Procs :
        /\ pc[r] = "done" /\ errors[r] = 1 /\ added[r] = 1
        /\ Cardinality(admitted[r]) = 1
        /\ pc[q] = "cdone" /\ errors[q] = 1 /\ deleted[q] = 1
        /\ \E i, j \in 1..Len(store) :
              /\ i < j /\ Live(i) /\ store[j].archived
              /\ DateLT(store[i].start, today[q])
              /\ store[i].end = None

\* the entry cleanup_past_events visits in this step
CleanupStep(r) == pc[r] = "centry" /\ idx'[r] = idx[r] + 1

EndsOnOrAfter(page, day) ==
    /\ page.end # None
    /\ ~DateLT(<<page.end[1], page.end[2], page.end[3]>>, day)

\* C5: for every entry the "before today" query returns, an entry whose end
\* date is >= today is counted as kept and no archive call is made; every
\* other entry gets exactly one archive attempt. An event whose end date is
\* today or later is never archived.
C5_MultiDayKept ==
    /\ [](\A i \in 1..Len(store) :
            EndsOnOrAfter(store[i], DateOf(now)) => Live(i))
    /\ [][\A r \in Procs :
            CleanupStep(r) =>
              LET entry == Head(response[r].results) IN
              IF EndsOnOrAfter(entry.page, today[r])
              THEN /\ kept'[r] = kept[r] + 1
                   /\ deleted'[r] = deleted[r] /\ errors'[r] = errors[r]
                   /\ store' = store
              ELSE /\ kept'[r] = kept[r]
                   /\ \/ /\ deleted'[r] = deleted[r] + 1
                         /\ errors'[r] = errors[r]
                         /\ store' = [store EXCEPT ![entry.id].archived = TRUE]
                      \/ /\ errors'[r] = errors[r] + 1
                         /\ deleted'[r] = deleted[r]
                         /\ store' = store]_vars

\* a cleanup pass that archived a past event and kept a multi-day event
\* ending after today, which the query had returned
C5_Witness ==
    \E r \in Procs :
        /\ pc[r] = "cdone" /\ deleted[r] >= 1 /\ kept[r] >= 1
        /\ \E i \in 1..Len(store) :
              /\ DateLT(store[i].start, today[r])
              /\ store[i].end # None
              /\ DateLT(today[r], ParseEndDate(store[i].end))
              /\ Live(i)

-----------------------------------------------------------------------------
(* Properties of the normalizers *)

FormatsOf(adapter) ==
    CASE adapter = "Boston Calendar" -> BostonFormats
      [] adapter = "ISBCC" -> ISBCCFormats
      [] adapter = "University Events" -> UniversityFormats
      [] OTHER -> MeetupFormats

DateOnlyOf(adapter, text) ==
    CASE adapter = "Boston Calendar" -> BostonDateOnly(text)
      [] adapter = "ISBCC" -> ISBCCDateOnly(text)
      [] adapter = "University Events" -> UniversityDateOnly(text)
      [] OTHER -> MeetupDateOnly(text)

ParseOf(adapter, text, clock) ==
    CASE adapter = "Boston Calendar" -> BostonParseDateTime(text, clock)
      [] adapter = "ISBCC" -> ISBCCParseDateTime(text, clock)
      [] adapter = "University Events" -> UniversityParseDateTime(text, clock)
      [] OTHER -> MeetupParseDateTime(text, clock)

\* the normalizer of one of the adapters has returned
Applied(adapters) == norm_pc = "applied" /\ norm_adapter \in adapters

\* the format the date part of date_text was parsed with, 0 when none did
MatchedFormat ==
    FirstMatch(FormatsOf(norm_adapter), DateOnlyOf(norm_adapter, date_text))

IsValidDate(dt) == dt.m \in 1..12 /\ dt.d \in 1..DaysInMonth(dt.y, dt.m)

\* C6: when no date format matches the date text, _parse_date_time (Boston
\* Calendar, ISBCC, Universities) returns an explicit "unparsed" value that
\* is no valid date, and in particular not the current date.
C6_UnparsedIsExplicit ==
    Applied({"Boston Calendar", "ISBCC", "University Events"}) /\ MatchedFormat = 0
        => /\ ~IsValidDate(norm_result.date)
           /\ norm_result.date # now

YearLess(fmt) == "%Y" \notin Range(fmt)

\* C8: when the matched format has no year, the date gets the current year,
\* or the next year when that calendar date is strictly before today; a
\* year-less date that falls on today stays in the current year.
C8_YearLessKeepsToday ==
    Applied({"Boston Calendar", "University Events"})
    /\ MatchedFormat # 0
    /\ YearLess(FormatsOf(norm_adapter)[MatchedFormat])
        => LET p == Strptime(DateOnlyOf(norm_adapter, date_text),
                             FormatsOf(norm_adapter)[MatchedFormat])
               y == IF DateLT(<<now.y, p.m, p.d>>, DateOf(now))
                    THEN now.y + 1 ELSE now.y
           IN  /\ DateOf(norm_result.date) = <<y, p.m, p.d>>
               /\ DateGE(DateOf(norm_result.date), DateOf(now))

HasTime(t) == \E i \in 1..Len(t) : t[i].k = "hm"

\* a, p, am, pm in any case
IsMarker(tok) == tok.k = "mark" /\ Lower(tok.s) \in {"a", "p", "am", "pm"}

\* the text without its H:MM times and the markers that follow them
RECURSIVE WithoutTimes(_)
WithoutTimes(t) ==
    IF t = <<>> THEN <<>>
    ELSE IF Head(t).k # "hm" THEN <<Head(t)>> \o WithoutTimes(Tail(t))
    ELSE IF Len(t) >= 2 /\ IsMarker(t[2])
         THEN WithoutTimes(SubSeq(t, 3, Len(t)))
    ELSE IF Len(t) >= 3 /\ t[2].k = " " /\ IsMarker(t[3])
         THEN WithoutTimes(SubSeq(t, 4, Len(t)))
    ELSE WithoutTimes(Tail(t))

\* 'H:MM AM' or 'H:MM PM'
IsCanonicalTime(ts) ==
    /\ Len(ts) = 3
    /\ ts[1].k = "hm"
    /\ ts[2] = SP
    /\ ts[3] \in {Mark("AM"), Mark("PM")}

\* C9: whenever the date text holds an H:MM time, with or without an am/pm
\* marker after it, the normalizer (Boston Calendar, Universities) returns
\* the time as 'H:MM AM' or 'H:MM PM' and the date parsed from the text
\* without the time; when the text holds no time, the time is absent.
C9_TimeIsCanonical ==
    Applied({"Boston Calendar", "University Events"})
        => IF HasTime(date_text)
           THEN /\ IsCanonicalTime(norm_result.time)
                /\ norm_result.date =
                     ParseOf(norm_adapter, WithoutTimes(date_text), now).date
           ELSE norm_result.time = None

\* the startDate is a date-time with an explicit offset
HasOffset(start) == start.T /\ start.off # ""

-----------------------------------------------------------------------------
(* Properties of a run of main *)

\* the url an event made of a Boston Calendar item gets
BostonUrlOf(item) ==
    IF item.website # "" THEN item.website ELSE AbsUrl(BostonBase, item.href)

\* no element holds a date text, or no date format matches the text
NoParsedDate(has_time, text, formats, date_only) ==
    ~has_time \/ FirstMatch(formats, date_only) = 0

\* urls of the raw records of the sites that have no date text or a date
\* text no format matches (a link of the Meetup city page never has one)
UndatedUrls ==
    { BostonUrlOf(site.boston[k]) :
        k \in { j \in 1..Len(site.boston) :
                  NoParsedDate(site.boston[j].has_time, site.boston[j].date_text,
                               BostonFormats,
                               BostonDateOnly(site.boston[j].date_text)) } }
    \cup { AbsUrl(MeetupBase, site.links[k].href) : k \in 1..Len(site.links) }
    \cup { AbsUrl(MeetupBase, site.cards[k].href) :
             k \in { j \in 1..Len(site.cards) :
                       NoParsedDate(site.cards[j].has_time, site.cards[j].date_text,
                                    MeetupFormats,
                                    MeetupDateOnly(site.cards[j].date_text)) } }

\* C7: over a whole run of main, no create call is made for a raw record
\* that has no date text or whose date text matches no format, and no page
\* of the store comes from such a record.
C7_UndatedNeverPushed ==
    /\ admitted[1] \cap UndatedUrls = {}
    /\ \A i \in 1..Len(store) : store[i].url \notin UndatedUrls

-----------------------------------------------------------------------------
(* Properties of the categorizers *)

\* the text the categorizer of the call looks at
CatText ==
    IF cat_adapter \in TwoArgAdapters
    THEN StrLower(NameAnd(cat_name, cat_extra))
    ELSE StrLower(CharsOf(cat_name))

\* kw is a substring of text: text is some a characters, then kw, then some b
OccursIn(kw, text) ==
    \E a, b \in 0..Len(text) :
        /\ a + Len(kw) + b = Len(text)
        /\ \A i \in 1..Len(kw) : text[a + i] = kw[i]

\* the labels that have a keyword list
Labels ==
    {"South Asian", "Middle Eastern"}
    \cup {CATEGORY_KEYWORDS[k].cat : k \in 1..Len(CATEGORY_KEYWORDS)}

\* the keyword list of a label
KeywordsOf(L) ==
    CASE L = "South Asian" -> SOUTH_ASIAN_KEYWORDS
      [] L = "Middle Eastern" -> MIDDLE_EASTERN_KEYWORDS
      [] OTHER ->
           UNION {CATEGORY_KEYWORDS[k].keywords :
                      k \in {j \in 1..Len(CATEGORY_KEYWORDS) :
                                 CATEGORY_KEYWORDS[j].cat = L}}

\* a keyword of the list of L occurs in the text
KeywordOccurs(L, text) == \E kw \in KeywordsOf(L) : OccursIn(Spell(kw), text)

\* no keyword of any list occurs in the text
NoKeyword(text) == \A L \in Labels : ~KeywordOccurs(L, text)

\* the categorizers whose list starts empty and falls back to Community
CommunityFallback == NameAndAdapters \cup {"AllEvents"}

\* C11, as stated: every categorizer returns a non-empty list, and
\* ["Community"] alone when no keyword of any list occurs in the text.
C11_FallbackIsCommunity ==
    cat_pc = "applied" =>
        /\ cat_result # <<>>
        /\ NoKeyword(CatText) => cat_result = <<"Community">>

\* C11, amended: every categorizer returns a non-empty list; when no keyword
\* of any list occurs in the text the result is ["Community"] for the
\* categorizers that start from an empty list with that default and
\* ["Music & Dance"] for Ticketmaster's; the categorizers of Sulekha, ISBCC,
\* Dice and Bandsintown start from a fixed label, which is always the first
\* of the result.
C11_NeverEmptyFallbackByAdapter ==
    cat_pc = "applied" =>
        /\ cat_result # <<>>
        /\ cat_adapter \in CommunityFallback /\ NoKeyword(CatText)
               => cat_result = <<"Community">>
        /\ cat_adapter = "Ticketmaster" /\ NoKeyword(CatText)
               => cat_result = <<"Music & Dance">>
        /\ cat_adapter = "Sulekha" => cat_result[1] = "South Asian"
        /\ cat_adapter = "ISBCC" => cat_result[1] = "Middle Eastern"
        /\ cat_adapter = "Dice" => cat_result[1] = "Music & Dance"
        /\ cat_adapter = "Bandsintown"
               => cat_result[1] \in {"Music & Dance", "Comedy"}

\* a text without any keyword went through a categorizer with the Community
\* default and came back as ["Community"]
C11_Witness ==
    /\ cat_pc = "applied"
    /\ cat_adapter = "Boston Calendar"
    /\ cat_extra = <<>>
    /\ NoKeyword(CatText)
    /\ cat_result = <<"Community">>

\* the labels of a returned list
LabelsIn(categories) == {categories[i] : i \in 1..Len(categories)}

\* C12: for the categorizers with the body of BostonCalendarScraper's, a
\* label is in the result exactly when a keyword of its list is a substring
\* of the lowercase text, Community also when nothing matches; no label is
\* listed twice; and a call with the arguments of the call before it
\* returns the same set of labels.
C12_MembershipBySubstring ==
    cat_pc = "applied" /\ cat_adapter \in CommunityFallback =>
        /\ \A L \in Labels \ {"Community"} :
               L \in LabelsIn(cat_result) <=> KeywordOccurs(L, CatText)
        /\ "Community" \in LabelsIn(cat_result)
               <=> (KeywordOccurs("Community", CatText) \/ NoKeyword(CatText))
        /\ LabelsIn(cat_result) \subseteq Labels
        /\ Cardinality(LabelsIn(cat_result)) = Len(cat_result)
        /\ (/\ cat_prev.adapter = cat_adapter
            /\ cat_prev.name = cat_name
            /\ cat_prev.extra = cat_extra)
               => LabelsIn(cat_prev.result) = LabelsIn(cat_result)

\* the second of two calls on the same text returned several labels, one of
\* them for a keyword that occurs inside a longer word
C12_Witness ==
    /\ cat_pc = "applied"
    /\ cat_adapter = "Boston Calendar"
    /\ cat_prev.adapter = cat_adapter
    /\ cat_prev.name = cat_name
    /\ cat_prev.extra = cat_extra
    /\ cat_name = <<"Holi", "party">>
    /\ Len(cat_result) >= 3
    /\ "Arts & Crafts" \in LabelsIn(cat_result)
    /\ "South Asian" \in LabelsIn(cat_result)

-----------------------------------------------------------------------------
(* Properties of the geocoder *)

\* the entries of KNOWN_VENUES whose key occurs in the location, whatever
\* the case of its letters
KeysIn(location) ==
    {k \in 1..Len(KNOWN_VENUES) :
         OccursIn(Spell(KNOWN_VENUES[k].venue), StrLower(CharsOf(location)))}

\* C13: when the location text contains a key of KNOWN_VENUES,
\* geocode_location returns the coordinates of the first such key of the
\* table and sends no request; "Faneuil Hall" gives (42.3601, -71.0549).
C13_KnownVenueFirstKey ==
    /\ geo_pc = "calling" => KeysIn(geo_loc) = {}
    /\ geo_pc = "sleep" /\ KeysIn(geo_loc) # {} =>
           /\ \E k \in KeysIn(geo_loc) :
                  /\ \A j \in KeysIn(geo_loc) : k <= j
                  /\ geo_coords = Pair(KNOWN_VENUES[k].coords)
           /\ ~geo_ext
           /\ geo_inflight = 0
    /\ geo_pc = "sleep" /\ geo_loc = <<"Faneuil", "Hall">> =>
           geo_coords = << <<423601>>, <<-710549>> >>

\* a location with two keys of the table was looked up: the earlier key won
C13_Witness ==
    /\ geo_pc = "sleep"
    /\ geo_loc = <<"Faneuil", "Hall", "Boston">>
    /\ Cardinality(KeysIn(geo_loc)) = 2
    /\ geo_coords = Pair(KNOWN_VENUES[1].coords)
    /\ ~geo_ext

\* C14, as stated: once geocode_events has completed, every event has a
\* latitude and a longitude.
C14_AllHaveCoordinates ==
    geo_pc = "done" =>
        \A i \in 1..Len(geo_events) :
            /\ geo_events[i].latitude # None
            /\ geo_events[i].longitude # None

\* the event carries both coordinates
HasCoords(e) == e.latitude # None /\ e.longitude # None

\* C15, as stated: an event that carries both coordinates is passed over
\* without lookup, request or pause and keeps its coordinates; and a second
\* run of geocode_events leaves the catalog of the first as it is and sends
\* no request.
C15_SecondPassIsNoOp ==
    [][ /\ (GeoAtEvent /\ HasCoords(geo_events[geo_i])) =>
               /\ geo_i' = geo_i + 1
               /\ UNCHANGED <<geo_pc, geo_events, geo_loc, geo_coords, geo_ext,
                              geo_trace, geo_inflight>>
        /\ (geo_pc' = "done" /\ geo_pass' = 2) =>
               /\ geo_events' = geo_first'
               /\ \A k \in 1..Len(geo_trace') : geo_trace'[k] # "request"
      ]_vars

\* C16: in one run of geocode_events there is a pause between any two
\* requests to the geocoding service, and no request is sent while another
\* is unanswered.
C16_PauseBetweenRequests ==
    /\ \A i, j \in 1..Len(geo_trace) :
           (i < j /\ geo_trace[i] = "request" /\ geo_trace[j] = "request")
               => \E k \in (i + 1)..(j - 1) : geo_trace[k] = "pause"
    /\ geo_inflight <= 1

\* a second request is on its way in the same run
C16_Witness ==
    /\ geo_pc = "calling"
    /\ geo_trace = <<"request", "pause", "request">>
    /\ geo_inflight = 1

-----------------------------------------------------------------------------
(* Properties of the curator *)

\* the day the script runs on
CurToday == DateOf(now)

\* the date text of e is a calendar date d with today <= d <= today + 7
WithinWeek(e) ==
    /\ e.date.kind = "date"
    /\ \E k \in 0..7 : <<e.date.y, e.date.m, e.date.d>> = PlusDays(CurToday, k)

\* the ids of the events of a list
IdsOf(events) == {events[i].id : i \in 1..Len(events)}

\* C17: every event returned by load_events and by get_upcoming_events is
\* an event of the catalog whose date d has today <= d <= today + 7, both
\* ends included; an event outside the window or with a date text that
\* does not parse is never returned.
C17_ReturnedWithinWindow ==
    cur_pc = "returned" =>
        /\ \A i \in 1..Len(cur_result) :
               /\ WithinWeek(cur_result[i])
               /\ cur_result[i].id \in IdsOf(cur_events)
        /\ \A i \in 1..Len(cur_events) :
               ~WithinWeek(cur_events[i]) => cur_events[i].id \notin IdsOf(cur_result)

\* a call returned events of the first and of the last day of the
\* window from a catalog that also had events outside the window and
\* events without a date that parses
C17_Witness ==
    /\ cur_pc = "returned"
    /\ \E i \in 1..Len(cur_result) : EventDate(cur_result[i].date) = CurToday
    /\ \E i \in 1..Len(cur_result) :
           EventDate(cur_result[i].date) = PlusDays(CurToday, 7)
    /\ \E i \in 1..Len(cur_events) :
           /\ cur_events[i].date.kind = "date"
           /\ EventDate(cur_events[i].date) = PlusDays(CurToday, 8)
    /\ \E i \in 1..Len(cur_events) : cur_events[i].date.kind = "datetime"
    /\ \E i \in 1..Len(cur_events) : cur_events[i].date.kind = "missing"

\* the score of a returned event
ScoreOf(e) == ScoreEvent(e, PreferIndoor(cur_weather))

\* the place of a returned event in the catalog
PlaceOf(e) == CHOOSE i \in 1..Len(cur_events) : cur_events[i].id = e.id

\* C18: the list returned by load_events is ordered by score, highest
\* first; events of equal score are ordered by date, earliest first; events
\* of equal score and date are in the order of the catalog.
C18_OrderedByScoreThenDate ==
    cur_pc = "returned" /\ cur_fn = "load_events" =>
        \A i, j \in 1..Len(cur_result) :
            i < j =>
                LET a == cur_result[i]
                    b == cur_result[j]
                IN  /\ ScoreOf(a) >= ScoreOf(b)
                    /\ ScoreOf(a) = ScoreOf(b)
                           => ~DateLT(EventDate(b.date), EventDate(a.date))
                    /\ (ScoreOf(a) = ScoreOf(b) /\ a.date = b.date)
                           => PlaceOf(a) < PlaceOf(b)

\* load_events returned two events of equal score that the sort had to
\* exchange because of their dates, and two events of equal score and date
C18_Witness ==
    /\ cur_pc = "returned"
    /\ cur_fn = "load_events"
    /\ \E i, j \in 1..Len(cur_result) :
           /\ i < j
           /\ ScoreOf(cur_result[i]) = ScoreOf(cur_result[j])
           /\ DateLT(EventDate(cur_result[i].date), EventDate(cur_result[j].date))
           /\ PlaceOf(cur_result[j]) < PlaceOf(cur_result[i])
    /\ \E i, j \in 1..Len(cur_result) :
           /\ i < j
           /\ ScoreOf(cur_result[i]) = ScoreOf(cur_result[j])
           /\ cur_result[i].date = cur_result[j].date
    /\ \E i, j \in 1..Len(cur_result) :
           ScoreOf(cur_result[i]) > ScoreOf(cur_result[j])

\* the name of an event in lower case, without the blanks around it
TrimmedLowerName(e) == StripChars(StrLower(CharsOf(e.name)))

\* the events of the catalog within the window that are no junk, with the
\* is_indoor that load_events gives them
Candidates ==
    {[cur_events[i] EXCEPT !.is_indoor = IsIndoorEvent(cur_events[i])] :
         i \in {j \in 1..Len(cur_events) :
                    ~IsJunk(cur_events[j]) /\ WithinWeek(cur_events[j])}}

\* a comes before b in the sorted list
SortsBefore(a, b) ==
    \/ ScoreOf(a) > ScoreOf(b)
    \/ /\ ScoreOf(a) = ScoreOf(b)
       /\ DateLT(EventDate(a.date), EventDate(b.date))
    \/ /\ ScoreOf(a) = ScoreOf(b)
       /\ a.date = b.date
       /\ PlaceOf(a) < PlaceOf(b)

\* C19: the list returned by load_events has no two events with the same
\* lowercased, trimmed name; the event kept for a name is the first with
\* that name in sorted order; and the list has min(7, number of distinct
\* such names among the events in the window that are no junk) entries.
C19_DedupThenTruncate ==
    cur_pc = "returned" /\ cur_fn = "load_events" =>
        /\ \A i, j \in 1..Len(cur_result) :
               i # j => TrimmedLowerName(cur_result[i]) # TrimmedLowerName(cur_result[j])
        /\ \A i \in 1..Len(cur_result) :
               /\ cur_result[i] \in Candidates
               /\ \A c \in Candidates :
                      (c.id # cur_result[i].id
                       /\ TrimmedLowerName(c) = TrimmedLowerName(cur_result[i]))
                          => SortsBefore(cur_result[i], c)
        /\ Len(cur_result)
               = Min(7, Cardinality({TrimmedLowerName(c) : c \in Candidates}))

\* load_events cut the list to seven after it had dropped an event whose
\* name differed from a kept one in case and blanks only
C19_Witness ==
    /\ cur_pc = "returned"
    /\ cur_fn = "load_events"
    /\ Len(cur_result) = 7
    /\ Cardinality({TrimmedLowerName(c) : c \in Candidates}) > 7
    /\ \E c \in Candidates :
           \E i \in 1..Len(cur_result) :
               /\ c.id # cur_result[i].id
               /\ c.name # cur_result[i].name
               /\ TrimmedLowerName(c) = TrimmedLowerName(cur_result[i])

-----------------------------------------------------------------------------
(* Properties of the weather condition *)

\* the sum of the readings is at least n units
TotalAtLeast(values, n) == SumOf(values) >= 10 * n

\* the mean of the readings is at most n units: sum / len <= n
MeanAtMost(values, n) == SumOf(values) <= 10 * n * Len(values)

\* the mean of the readings is at least n units: sum / len >= n
MeanAtLeast(values, n) == SumOf(values) >= 10 * n * Len(values)

\* the number of days with snowfall
DaysWithSnow == Cardinality({i \in 1..7 : wx_data.snowfall_sum[i] > 0})

\* the number of days with a weather code of snow (71-77) or of rain and
\* drizzle (51-67)
AdverseDays ==
    Cardinality({i \in 1..7 : wx_data.weather_code[i] \in (51..67) \cup (71..77)})

WeekIsSnow == TotalAtLeast(wx_data.snowfall_sum, 2) \/ DaysWithSnow >= 2
WeekIsFreezing == MeanAtMost(wx_data.temperature_2m_min, -5)
WeekIsRainy == TotalAtLeast(wx_data.precipitation_sum, 15)
WeekIsHeat == MeanAtLeast(wx_data.temperature_2m_max, 35)
WeekIsMixed == AdverseDays >= 3

-----------------------------------------------------------------------------
(* Properties of the weather bias *)

\* the parts of the score that do not depend on the weather, one by one
OtherComponents(e) ==
    << "South Asian" \in LabelsIn(e.categories),
       "Middle Eastern" \in LabelsIn(e.categories),
       "Cultural Festival" \in LabelsIn(e.categories),
       "Music & Dance" \in LabelsIn(e.categories),
       "Food & Markets" \in LabelsIn(e.categories),
       OccursIn(Spell("free"), StrLower(CharsOf(e.price))),
       e.time # "" >>

\* the condition is one that asks for indoor events
BadWeather == cur_weather \in {"snow", "freezing", "rainy", "heat", "mixed"}

-----------------------------------------------------------------------------
(* Properties of the run of main *)

\* no scrape() has been invoked and the store has not been called
NothingDoneYet ==
    /\ main_pc \in {"scrape", "done"}
    /\ scraper = 1
    /\ all_events = <<>>
    /\ pc[1] = "idle"
    /\ store = <<>>

\* C24: when NOTION_TOKEN or NOTION_DATABASE_ID is missing, the run of main
\* ends before any scrape() is invoked and before any store read or write.
C24_ConfigurationCheckedFirst == ~configured => NothingDoneYet

\* the position of the loop after the iteration of scraper number k
AfterIteration(k, position, number) ==
    IF k < Len(Scrapers)
    THEN position = "scrape" /\ number = k + 1
    ELSE position = "push"

\* C25: a scrape() that raises adds no record to all_events, the loop goes
\* on with the next scraper of the list (or to the push after the last
\* one), and a run in which a scrape() has raised still hands every event
\* it collected to add_events.
C25_AdapterFailureNotFatal ==
    [][/\ main_pc' = "except" =>
            all_events' = all_events /\ scraper' = scraper
       /\ main_pc = "except" =>
            /\ all_events' = all_events
            /\ AfterIteration(scraper, main_pc', scraper')
       /\ (failed /\ main_pc = "push" /\ pc[1] = "idle" /\ configured
                  /\ all_events # <<>>) =>
            pc'[1] = "seed"
       /\ (failed /\ pc'[1] = "done") =>
            idx'[1] = Len(all_events) /\ all_events' = all_events]_vars

\* MeetupScraper.scrape has raised after BostonCalendarScraper had found
\* events, the two remaining scrapers have been called and every event
\* found was handed to the store
C25_Witness ==
    /\ failed
    /\ main_pc = "push"
    /\ pc[1] = "done"
    /\ scraper = Len(Scrapers)
    /\ all_events # <<>>
    /\ \A k \in 1..Len(all_events) :
           \E n \in 1..Len(store) : store[n].url = all_events[k].url

-----------------------------------------------------------------------------
(* Properties of the events of a subscriber *)

\* the price of the event has "free" in it, in whatever case
HasFree(e) ==
    e.price.present /\ OccursIn(Spell("free"), StrLower(CharsOf(e.price.words)))

\* the price of the event is missing, null or ""
Blank(e) == ~e.price.present \/ CharsOf(e.price.words) = <<>>

\* the event was returned
Returned(e) == \E k \in 1..Len(sub_result) : sub_result[k] = e

\* C22: with the price preference free alone every returned event has a
\* price with "free" in it; with paid alone no returned event has a price
\* with "free" in it or a blank price; with no price preference, or with
\* both, an event that passes the two other filters is returned unless the
\* list is full.
C22_PriceFilter ==
    sub_pc = "returned" =>
        LET prefs == LabelsIn(subscriber.price_prefs) \cap {"free", "paid"}
        IN  /\ prefs = {"free"} =>
                \A k \in 1..Len(sub_result) : HasFree(sub_result[k])
            /\ prefs = {"paid"} =>
                \A k \in 1..Len(sub_result) :
                    ~HasFree(sub_result[k]) /\ ~Blank(sub_result[k])
            /\ prefs \in {{}, {"free", "paid"}} =>
                \A i \in 1..Len(sub_events) :
                    (/\ PassesInterest(sub_events[i],
                                       InterestCats(subscriber.interests))
                     /\ PassesLocation(sub_events[i], subscriber.location)) =>
                        \/ Returned(sub_events[i])
                        \/ Len(sub_result) = MAX_EVENTS_PER_EMAIL

\* a subscriber who asked for paid events got some, and an event priced
\* "Free" and an event without a price were left out of a list that was
\* not full
C22_Witness ==
    /\ sub_pc = "returned"
    /\ subscriber.price_prefs = <<"paid">>
    /\ sub_result # <<>>
    /\ Len(sub_result) < MAX_EVENTS_PER_EMAIL
    /\ \E i, j \in 1..Len(sub_events) :
           /\ HasFree(sub_events[i]) /\ sub_events[i].price.words = <<"Free">>
           /\ Blank(sub_events[j])
           /\ ~Returned(sub_events[i])
           /\ ~Returned(sub_events[j])

\* the labels the table maps the tags of the subscriber to
MappedLabels(interests) ==
    UNION { LabelsIn(INTEREST_TO_CATEGORY(interests[k])) : k \in 1..Len(interests) }

\* C23: when the subscriber has at least one interest tag, every returned
\* event has a category among the labels mapped from the tags, also when
\* no tag of the subscriber has a mapping.
C23_InterestFilter ==
    (sub_pc = "returned" /\ subscriber.interests # <<>>) =>
        \A k \in 1..Len(sub_result) :
            LabelsIn(sub_result[k].categories)
                \cap MappedLabels(subscriber.interests) # {}

-----------------------------------------------------------------------------
(* Properties of the condition of the week *)

Conditions == {"snow", "freezing", "rainy", "heat", "mixed", "nice"}

\* C26 (as stated): the condition analyze_weather returns is one of snow,
\* freezing, rainy, heat, mixed, nice for every input, a missing or empty
\* forecast included.
C26_ConditionIsOneOfSix == wx_pc = "applied" => wx_condition \in Conditions

\* C26 (amended): the condition is one of the six values for a forecast
\* that holds something, and "unknown" for a missing or empty forecast.
C26_ConditionOrUnknown ==
    wx_pc = "applied" =>
        IF wx_data.given THEN wx_condition \in Conditions
        ELSE wx_condition = "unknown"

\* analyze_weather was called with the None of a failed fetch
C26_Witness ==
    /\ wx_pc = "applied"
    /\ ~wx_data.given
    /\ wx_condition = "unknown"

-----------------------------------------------------------------------------
(* Properties of the year of a normalized date *)

\* the year written in the date text, read with the format that matched
WrittenYear ==
    Strptime(DateOnlyOf(norm_adapter, date_text),
             FormatsOf(norm_adapter)[MatchedFormat]).y

\* C27: in every adapter's date normalizer, when the format that matched
\* has a year, the date returned carries the year written in the text; the
\* current year and the roll-forward to the next year are for year-less
\* formats only.
C27_ExplicitYearKept ==
    (/\ Applied(TextAdapters)
     /\ MatchedFormat # 0
     /\ ~YearLess(FormatsOf(norm_adapter)[MatchedFormat]))
        => norm_result.date.y = WrittenYear

-----------------------------------------------------------------------------
(* Properties of the indoor/outdoor classification *)

InEitherTable(cat) == cat \in INDOOR_CATEGORIES \cup OUTDOOR_CATEGORIES

\* the positions of the categories of the event that are in a table
Deciding(e) == {i \in 1..Len(e.categories) : InEitherTable(e.categories[i])}

\* the name and the location of the event, in lower case, with a blank
\* between them
HintText(e) == StrLower(CharsOf(e.name) \o <<" ">> \o CharsOf(e.location))

HasHint(e, hints) == \E h \in hints : OccursIn(Spell(h), HintText(e))

\* C28: is_indoor_event decides by the first category of the event that is
\* in the indoor or the outdoor table; when no category is in a table an
\* outdoor hint in the name or the location makes the event outdoor, even
\* when an indoor hint is there as well, and without an outdoor hint the
\* event is indoor.
C28_IndoorClassification ==
    cur_pc = "returned" /\ cur_fn = "load_events" =>
        \A k \in 1..Len(cur_result) :
            LET e == cur_result[k] IN
            IF Deciding(e) # {}
            THEN LET first == CHOOSE i \in Deciding(e) : \A j \in Deciding(e) : i <= j
                 IN  e.is_indoor <=> e.categories[first] \in INDOOR_CATEGORIES
            ELSE e.is_indoor <=> ~HasHint(e, OutdoorHints)

\* the list returned holds an event outdoor by its first table category
\* although a later category is indoor, and an event outdoor by a hint
\* although an indoor hint is in its name as well
C28_Witness ==
    /\ cur_pc = "returned"
    /\ cur_fn = "load_events"
    /\ \E k, n \in 1..Len(cur_result) :
           /\ cur_result[k].categories = <<"Cultural Festival", "Food & Markets">>
           /\ ~cur_result[k].is_indoor
           /\ Deciding(cur_result[n]) = {}
           /\ HasHint(cur_result[n], IndoorHints)
           /\ HasHint(cur_result[n], OutdoorHints)
           /\ ~cur_result[n].is_indoor

-----------------------------------------------------------------------------
(* Properties of the file the geocoder writes *)

\* the event has the same fields but the two coordinates
SameButCoords(a, b) ==
    /\ DOMAIN a = DOMAIN b
    /\ \A f \in DOMAIN a \ {"latitude", "longitude"} : a[f] = b[f]

\* the event has no latitude or no longitude
LackedCoords(e) == e.latitude = None \/ e.longitude = None

\* C29: geocode_events writes back the catalog it read with the same
\* events in the same order, each with every field but latitude and
\* longitude as it was, the coordinates changed only for events that lacked
\* them, and the 'updated' field of the catalog as it was.
C29_EnrichmentFrame ==
    [][geo_file' # geo_file =>
          /\ geo_file'.updated = geo_file.updated
          /\ DOMAIN geo_file' = DOMAIN geo_file
          /\ Len(geo_file'.events) = Len(geo_file.events)
          /\ \A i \in 1..Len(geo_file.events) :
                 /\ SameButCoords(geo_file.events[i], geo_file'.events[i])
                 /\ geo_file'.events[i] # geo_file.events[i] =>
                        LackedCoords(geo_file.events[i])]_vars

\* the file was written with coordinates for an event that had none, next
\* to an event that had its own
C29_Witness ==
    /\ geo_pc = "done"
    /\ geo_pass = 1
    /\ Len(geo_file.events) = 2
    /\ geo_file.events[1].url = "/e/7"
    /\ geo_file.events[1].latitude = <<426334>>
    /\ geo_file.events[2].url = "/e/3"
    /\ geo_file.events[2].latitude # None
    /\ geo_file.updated = "2026-02-01T10:00:00"

-----------------------------------------------------------------------------
(* Properties of the seed set *)

\* get_existing_urls of run r has returned and no candidate was looked at
Seeded(r) == pc[r] = "loop" /\ idx[r] = 0

\* C30: the set get_existing_urls returns at the start of an add_events
\* run holds the url of every event in the store, whatever the number of
\* pages of the query, so that an event stored by an earlier run is taken
\* for a duplicate by a later one.
C30_SeedSetComplete ==
    \A r \in Procs :
        Seeded(r) =>
            \A i \in 1..Len(store) : Live(i) => store[i].url \in existing_urls[r]

=============================================================================
